---- MODULE Spec2Model ----
(***************************************************************************)
(* Model of the tinytorrent leecher: the status.Tracker download engine    *)
(* (downloadScheduler, recvPieces, keepAliveSeeders, UpdateSeeders,        *)
(* CancelDownload) and the Client layer above it (WorkOn, WaitFor, watch,  *)
(* downloadTorrent, Close).                                                *)
(***************************************************************************)
EXTENDS Integers, Sequences, FiniteSets, TLC

(***************************************************************************)
(* Bounds of the model and program constants.                              *)
(***************************************************************************)
\* messagesv1.RequestSize, the block request length (16 KiB).
RequestSize == 16384
\* the reschedule timeout of downloadScheduler, in seconds.
RequestTimeout == 15
\* Torrent.PieceLength of the modelled torrent: two blocks per full piece.
PieceLength == 20000
\* Torrent.BytesToDownload() of the modelled torrent: a full and a short piece.
Total == 30000
\* len(t.download.requests), the size of the slot table.
NumSlots == 1
\* the clock stops advancing at MaxNow seconds; it advances TickStep at a time.
MaxNow == 16
TickStep == 16

\* the peer addresses a tracker response can name.
Peers == {"p1", "p2"}
\* the concurrent callers of WorkOn; a worker is named after the call that started it.
Callers == {"c1", "c2"}

\* a nil *pendingPiece in a slot / no piece held by a receive worker.
NoPiece == -1

Min(a, b) == IF a < b THEN a ELSE b

\* uint32(x) of a non-negative int64 below 2^31, the range of the model's
\* integers, where the conversion keeps the value; a negative x has no uint32
\* the model can hold and maps to -1.
Uint32(x) == IF x >= 0 THEN x ELSE -1

\* Torrent.NumPieces(): ceil(total / piece_length).
NumPieces == (Total + PieceLength - 1) \div PieceLength
PieceIdx == 0 .. (NumPieces - 1)

\* a piece size that is the piece length for every piece.
PieceSizeWhole(index) == PieceLength

\* pieceSize of the admission step: min(pieceStart+PieceLength, total) - pieceStart.
PieceSize(index) ==
    LET pieceStart == index * PieceLength
        pieceEnd   == Min(pieceStart + PieceLength, Total)
    IN  pieceEnd - pieceStart

RECURSIVE SplitFromWhole(_, _, _)
\* a split loop that does not shorten the last block.
SplitFromWhole(index, pieceSize, p) ==
    IF p < pieceSize
    THEN <<[Index |-> index, Begin |-> Uint32(p), Length |-> Uint32(RequestSize)]>>
         \o SplitFromWhole(index, pieceSize, p + RequestSize)
    ELSE <<>>

\* the loop that splits a piece into block requests.
RECURSIVE SplitFrom(_, _, _)
SplitFrom(index, pieceSize, p) ==
    IF p < pieceSize
    THEN LET nextBlockSize == IF pieceSize < p + RequestSize
                              THEN pieceSize - p ELSE RequestSize
         IN  <<[Index |-> index, Begin |-> Uint32(p), Length |-> Uint32(nextBlockSize)]>>
             \o SplitFrom(index, pieceSize, p + nextBlockSize)
    ELSE <<>>

SplitPiece(index, pieceSize) == SplitFrom(index, pieceSize, 0)

\* a fresh pendingPiece as built by the admission step.
NewPendingPiece(index) ==
    [Index      |-> index,
     Downloaded |-> 0,
     Size       |-> PieceSize(index),
     Received   |-> <<>>,
     Pending    |-> SplitPiece(index, PieceSize(index)),
     InFlight   |-> <<>>]

SeqToSet(s) == {s[k] : k \in 1 .. Len(s)}

\* every block request of the torrent, and the shapes a piece message can have.
AllRequests == UNION {SeqToSet(SplitPiece(i, PieceSize(i))) : i \in PieceIdx}
BlockShapes == {<<r.Begin, r.Length>> : r \in AllRequests}

\* all orders in which rand.Shuffle can leave a list of the elements of S.
Perms(S) == {s \in [1 .. Cardinality(S) -> S] : \A a, b \in 1 .. Cardinality(S) : a # b => s[a] # s[b]}

(***************************************************************************)
(* State.                                                                  *)
(***************************************************************************)
VARIABLES
    now,          \* wall clock in seconds (time.Now / time.Since)
    seeders,      \* t.peers.seeders: the addresses with a peer.Peer
    conn,         \* peer.ConnectionStatus per peer
    remote,       \* peer.Status.Remote per peer
    pbf,          \* peer.Bitfield per peer, as the set of set bits
    kaPc,         \* position of keepAliveSeeders(p)
    recvPc,       \* position of recvPieces(p)
    requests,     \* t.download.requests: slot -> *pendingPiece
    pieces,       \* the pendingPiece objects ever created, by piece index
    unverified,   \* the scheduler's queue of piece indices
    schedPc,      \* position of downloadScheduler
    schedI,       \* the slot the scheduler's pass visits next
    freeSlots,    \* the scheduler's count of nil slots of this pass
    BitField,     \* t.BitField, as the set of set bits
    Downloaded,   \* t.Downloaded
    stop,         \* t.stop is closed
    cancel,       \* t.download.cancel is closed
    completed,    \* t.download.completed is closed
    dwg,          \* t.download.wg counter
    panic,        \* the panic that aborted the process, "" if none
    out,          \* what the last step of the download did: the outcome of the
                  \* arrival it handled, its calls into sessions and the store
    retried,      \* the requests the scheduler has moved back to Pending on a timeout
    mismatched,   \* the pieces whose digest check has failed
    done,         \* Client.done is closed
    ctxDone,      \* the context of watch is cancelled
    tracked,      \* torrentsDownloading holds a tracker for the info-hash
    stores,       \* how many trackers were stored for the info-hash
    woPc,         \* position of each WorkOn call
    watchPc,      \* position of watch
    cwg,          \* Client.wg counter
    wkPc,         \* position of each downloadTorrent worker
    wkD,          \* the Downloaded value a worker loaded for its stopped announce
    ann,          \* the last announce each worker sent
    wfPc,         \* position of the WaitFor worker
    wfErr,        \* the error delivered on the channel WaitFor returned, "" if none
    wfDone,       \* whether Client.done was closed when that channel was closed
    call,         \* the last call of a function of the tracker package: its
                  \* arguments and what it returned
    found         \* per receive worker that takes its steps one by one: the slot
                  \* and the block it holds between the slot lookup and the lock

engineVars == <<now, seeders, conn, remote, pbf, kaPc, recvPc,
                requests, pieces, unverified, schedPc, schedI, freeSlots, BitField,
                Downloaded, stop, cancel, completed, dwg, panic, out, retried, mismatched>>

clientVars == <<done, ctxDone, tracked, stores, woPc, watchPc, cwg, wkPc, wkD, ann,
                wfPc, wfErr, wfDone>>

vars == <<engineVars, clientVars, call, found>>

\* no function of the tracker package has been called.
NoCall == [op |-> "none"]

\* the receive worker is not between its slot lookup and the piece lock.
NoFound == [slot |-> 0]

\* lock is the index of the piece whose lock the step holds while it makes its
\* calls, NoPiece when it holds none.
NoCalls == [recv |-> "", cancel |-> {}, request |-> {}, have |-> {}, close |-> {},
            flush |-> {}, notInterested |-> {}, casFailed |-> FALSE, lock |-> NoPiece]

(***************************************************************************)
(* peer.Peer operations used by the engine.                                *)
(***************************************************************************)
\* the peers a cancel is sent to.
CanCancel(q) == conn[q] = "established" /\ remote[q] = "unchoked"
\* a selection that takes every established peer.
CanRequestEstablished(q, index) == conn[q] = "established"

\* the peers a request for a block of piece index may be sent to.
CanRequest(q, index) == conn[q] = "established" /\ remote[q] = "unchoked" /\ index \in pbf[q]

\* p.Close(): the session is killed; its choke flag and bitfield, which the
\* engine reads of established sessions only, start afresh.
PeerClose(q) ==
    /\ conn' = [conn EXCEPT ![q] = "killed"]
    /\ remote' = [remote EXCEPT ![q] = "choked"]
    /\ pbf' = [pbf EXCEPT ![q] = {}]

(***************************************************************************)
(* downloadScheduler.                                                      *)
(***************************************************************************)
Expired(req) == ~req.received /\ (now - req.send) > RequestTimeout

RECURSIVE SelectIdx(_, _, _)
\* the subsequence of s at the positions of K, in order.
SelectIdx(s, K, k) ==
    IF k > Len(s) THEN <<>>
    ELSE (IF k \in K THEN <<s[k]>> ELSE <<>>) \o SelectIdx(s, K, k + 1)

\* the reschedule loop: expired requests go to Pending and leave InFlight.
Reschedule(p) ==
    LET  late == {k \in 1 .. Len(p.InFlight) : Expired(p.InFlight[k])}
         keep == (1 .. Len(p.InFlight)) \ late
         back == SelectIdx(p.InFlight, late, 1)
    IN   [p EXCEPT !.Pending  = p.Pending \o [k \in 1 .. Len(back) |-> back[k].request],
                   !.InFlight = SelectIdx(p.InFlight, keep, 1)]

\* the cancels the reschedule loop sends: one per expired request and peer.
RescheduleCancels(p) ==
    {<<q, p.InFlight[k].request>> :
        q \in {q \in seeders : CanCancel(q)},
        k \in {k \in 1 .. Len(p.InFlight) : Expired(p.InFlight[k])}}

\* the dispatch loop under the choice ch: ch[k] is the peer SendRequest
\* succeeded on for Pending[k], or "err" when the send failed.
Dispatch(p, ch) ==
    LET  sent == {k \in 1 .. Len(p.Pending) :
                    /\ \E q \in seeders : CanRequest(q, p.Pending[k].Index)
                    /\ ch[k] # "err"}
         keep == (1 .. Len(p.Pending)) \ sent
         gone == SelectIdx(p.Pending, sent, 1)
    IN   [p EXCEPT !.Pending  = SelectIdx(p.Pending, keep, 1),
                   !.InFlight = p.InFlight \o
                       [k \in 1 .. Len(gone) |-> [request |-> gone[k], send |-> now, received |-> FALSE]]]

DispatchRequests(p, ch) ==
    {<<ch[k], p.Pending[k]>> :
        k \in {k \in 1 .. Len(p.Pending) :
                 /\ \E q \in seeders : CanRequest(q, p.Pending[k].Index)
                 /\ ch[k] # "err"}}

\* the choices of rand.IntN and of the outcome of SendRequest for piece p.
DispatchChoices(p) ==
    LET ok == {q \in seeders : CanRequest(q, p.Index)}
    IN  [1 .. Len(p.Pending) -> ok \cup {"err"}]

\* case <-t.stop of the scheduler's select.
SchedulerStop ==
    /\ panic = "" /\ schedPc = "run" /\ schedI = 1
    /\ stop
    /\ schedPc' = "stopped"
    /\ dwg' = dwg - 1
    /\ UNCHANGED <<now, seeders, conn, remote, pbf, kaPc, recvPc,
                   requests, pieces, unverified, schedI, freeSlots, BitField,
                   Downloaded, stop, cancel, completed, panic>>
    /\ out' = NoCalls
    /\ UNCHANGED <<retried, mismatched, clientVars>>
    /\ UNCHANGED <<call, found>>

\* case <-t.download.cancel of the scheduler's select.
SchedulerCancel ==
    /\ panic = "" /\ schedPc = "run" /\ schedI = 1
    /\ cancel
    /\ schedPc' = "cancelled"
    /\ dwg' = dwg - 1
    /\ UNCHANGED <<now, seeders, conn, remote, pbf, kaPc, recvPc,
                   requests, pieces, unverified, schedI, freeSlots, BitField,
                   Downloaded, stop, cancel, completed, panic>>
    /\ out' = NoCalls
    /\ UNCHANGED <<retried, mismatched, clientVars>>
    /\ UNCHANGED <<call, found>>

\* default case, the visit of slot schedI: reschedule and dispatch under the piece lock.
SchedulerSlot ==
    /\ panic = "" /\ schedPc = "run" /\ schedI \in 1 .. NumSlots
    /\ schedI = 1 => ~stop /\ ~cancel
    /\ LET base == IF schedI = 1 THEN 0 ELSE freeSlots
       IN  IF requests[schedI] = NoPiece
           THEN /\ freeSlots' = base + 1
                /\ out' = NoCalls
                /\ UNCHANGED <<pieces, retried>>
           ELSE LET p  == pieces[requests[schedI]]
                    p1 == Reschedule(p)
                IN  \E ch \in DispatchChoices(p1) :
                       /\ pieces' = [pieces EXCEPT ![p.Index] = Dispatch(p1, ch)]
                       /\ out' = [NoCalls EXCEPT !.cancel  = RescheduleCancels(p),
                                                 !.request = DispatchRequests(p1, ch),
                                                 !.lock    = p.Index]
                       /\ retried' = retried \cup
                              {p1.Pending[k] : k \in (Len(p.Pending) + 1) .. Len(p1.Pending)}
                       /\ freeSlots' = base
    /\ schedI' = schedI + 1
    /\ UNCHANGED <<now, seeders, conn, remote, pbf, kaPc, recvPc,
                   requests, unverified, schedPc, BitField,
                   Downloaded, stop, cancel, completed, dwg, panic>>
    /\ UNCHANGED <<mismatched, clientVars>>
    /\ UNCHANGED <<call, found>>

\* a slot search that takes the first slot, free or not.
FreeSlotFirst == Min(1, NumSlots)

\* the first nil slot, 0 when there is none (slot < 0 in the code).
FreeSlot ==
    IF \E s \in 1 .. NumSlots : requests[s] = NoPiece
    THEN CHOOSE s \in 1 .. NumSlots :
            requests[s] = NoPiece /\ \A s2 \in 1 .. (s - 1) : requests[s2] # NoPiece
    ELSE 0

\* a completion test that does not look at the slots.
AllSlotsFreeUnchecked == TRUE

\* freeSlots == len(t.download.requests): every slot was nil in this pass.
AllSlotsFree == freeSlots = NumSlots

\* the tail of an iteration: completion check and admission of a new piece.
SchedulerAdmit ==
    /\ panic = "" /\ schedPc = "run" /\ schedI = NumSlots + 1
    /\ IF Len(unverified) = 0
       THEN IF AllSlotsFree
            THEN /\ completed' = TRUE
                 /\ dwg' = dwg - 1
                 /\ schedPc' = "completed"
                 /\ schedI' = 1
                 /\ UNCHANGED <<requests, pieces, unverified>>
            ELSE /\ schedI' = 1
                 /\ UNCHANGED <<requests, pieces, unverified, completed, dwg, schedPc>>
       ELSE IF FreeSlot = 0
            THEN /\ schedI' = 1
                 /\ UNCHANGED <<requests, pieces, unverified, completed, dwg, schedPc>>
            ELSE \* the CompareAndSwap(nil, pending) succeeds: only the scheduler fills slots.
                 /\ requests' = [requests EXCEPT ![FreeSlot] = unverified[1]]
                 /\ pieces' = (unverified[1] :> NewPendingPiece(unverified[1])) @@ pieces
                 /\ unverified' = Tail(unverified)
                 /\ schedI' = 1
                 /\ UNCHANGED <<completed, dwg, schedPc>>
    /\ UNCHANGED <<now, seeders, conn, remote, pbf, kaPc, recvPc,
                   freeSlots, BitField, Downloaded, stop, cancel, panic>>
    /\ out' = NoCalls
    /\ UNCHANGED <<retried, mismatched, clientVars>>
    /\ UNCHANGED <<call, found>>

(***************************************************************************)
(* recvPieces.                                                             *)
(***************************************************************************)
\* a lookup that takes the first entry in flight, whatever it asks for.
InFlightIndexAny(p, req) == IF Len(p.InFlight) > 0 THEN 1 ELSE 0

\* slices.IndexFunc over InFlight: the first entry whose request equals req, 0 if none.
InFlightIndex(p, req) ==
    IF \E k \in 1 .. Len(p.InFlight) : p.InFlight[k].request = req
    THEN CHOOSE k \in 1 .. Len(p.InFlight) :
            /\ p.InFlight[k].request = req
            /\ \A j \in 1 .. (k - 1) : p.InFlight[j].request # req
    ELSE 0

\* a duplicate check that finds nothing.
IsDuplicateNever(p, recv) == FALSE

\* the duplicate check over Received.
IsDuplicate(p, recv) ==
    \E k \in 1 .. Len(p.Received) :
        /\ p.Received[k].Begin = recv.Begin
        /\ p.Received[k].Index = recv.Index
        /\ p.Received[k].Length = recv.Length

RECURSIVE SortByBegin(_)
\* slices.SortFunc(piece.Received, cmp.Compare(a.Begin, b.Begin)).
SortByBegin(s) ==
    IF Len(s) <= 1 THEN s
    ELSE LET m == CHOOSE k \in 1 .. Len(s) :
                     /\ \A j \in 1 .. Len(s) : s[k].Begin <= s[j].Begin
                     /\ \A j \in 1 .. (k - 1) : s[j].Begin > s[k].Begin
         IN  <<s[m]>> \o SortByBegin(SelectIdx(s, (1 .. Len(s)) \ {m}, 1))

\* a digest comparison that accepts any data.
DigestMatchesAny(index, blocks) == TRUE

\* sha1.Sum(data) equals Torrent.PieceHash(index): the blocks, concatenated in
\* the order given, are the piece's content.
DigestMatches(index, blocks) ==
    /\ \A k \in 1 .. Len(blocks) : blocks[k].ok
    /\ \A k \in 1 .. Len(blocks) :
          blocks[k].Begin = (IF k = 1 THEN 0 ELSE blocks[k - 1].Begin + blocks[k - 1].Length)
    /\ Len(blocks) > 0
    /\ blocks[Len(blocks)].Begin + blocks[Len(blocks)].Length = PieceSize(index)

\* a retry that puts the requests back in Pending and leaves them in flight too.
RequeueKeepInFlight(p) ==
    [p EXCEPT !.Pending  = p.Pending \o [k \in 1 .. Len(p.InFlight) |-> p.InFlight[k].request],
              !.Received = <<>>]

\* a retry that puts the requests back in Pending and keeps the blocks received.
RequeueKeepReceived(p) ==
    [p EXCEPT !.Pending  = p.Pending \o [k \in 1 .. Len(p.InFlight) |-> p.InFlight[k].request],
              !.InFlight = <<>>]

\* the retry of a piece after a hash mismatch or a failed flush.
Requeue(p) ==
    [p EXCEPT !.Pending  = p.Pending \o [k \in 1 .. Len(p.InFlight) |-> p.InFlight[k].request],
              !.InFlight = <<>>,
              !.Received = <<>>]

\* the slot lookup for an arriving block of piece index: slot 0 if the piece is untracked.
LookupSlot(index) ==
    IF \E s \in 1 .. NumSlots : requests[s] # NoPiece /\ pieces[requests[s]].Index = index
    THEN CHOOSE s \in 1 .. NumSlots :
            /\ requests[s] # NoPiece /\ pieces[requests[s]].Index = index
            /\ \A s2 \in 1 .. (s - 1) :
                  ~(requests[s2] # NoPiece /\ pieces[requests[s2]].Index = index)
    ELSE 0

\* the channel of p.SeederPieces() is closed: the receive worker ends.
RecvClosed(p) ==
    /\ panic = "" /\ recvPc[p] = "recv" /\ conn[p] = "killed"
    /\ found[p] = NoFound
    /\ recvPc' = [recvPc EXCEPT ![p] = "exited"]
    /\ dwg' = dwg - 1
    /\ UNCHANGED <<now, seeders, conn, remote, pbf, kaPc, requests,
                   pieces, unverified, schedPc, schedI, freeSlots, BitField, Downloaded,
                   stop, cancel, completed, panic>>
    /\ out' = NoCalls
    /\ UNCHANGED <<retried, mismatched, clientVars>>
    /\ UNCHANGED <<call, found>>

\* a compare-and-swap that finds another pointer in the slot.
CompareAndSwapLost(pieceIdx, index) == FALSE

\* t.download.requests[pieceIdx].CompareAndSwap(piece, nil) succeeds: the slot
\* still holds the piece (the new value is written by the caller).
CompareAndSwap(pieceIdx, index) == requests[pieceIdx] = index

\* the block recv arriving from peer p for the piece found in slot pieceIdx is
\* handled under the piece lock; flushOk is the outcome of t.Flush where it is
\* called.
RecvBlock(p, pieceIdx, recv) ==
    LET piece == pieces[recv.Index]
        req   == InFlightIndex(piece, [Index |-> recv.Index, Begin |-> recv.Begin,
                                        Length |-> Uint32(recv.Length)])
        got   == [piece EXCEPT !.Downloaded = piece.Downloaded + recv.Length,
                               !.Received   = Append(piece.Received, recv),
                               !.InFlight   = [piece.InFlight EXCEPT ![req].received = TRUE]]
        data  == SortByBegin(got.Received)
        calls == [NoCalls EXCEPT !.recv = "accepted", !.lock = piece.Index]
    IN
    /\ IF req = 0 \/ IsDuplicate(piece, recv)
       THEN \* no matching request in flight, or a duplicate: discarded
            /\ out' = [NoCalls EXCEPT !.recv = IF req = 0 THEN "unrequested" ELSE "duplicate",
                                      !.lock = piece.Index]
            /\ UNCHANGED <<pieces, Downloaded, panic, conn, remote, pbf, BitField, requests,
                           mismatched>>
       ELSE IF piece.Downloaded + recv.Length > piece.Size
       THEN /\ pieces' = [pieces EXCEPT ![piece.Index].Downloaded = piece.Downloaded + recv.Length]
            /\ panic' = "recieved more data than expected"
            /\ out' = [NoCalls EXCEPT !.recv = "aborted", !.lock = piece.Index]
            /\ UNCHANGED <<Downloaded, conn, remote, pbf, BitField, requests, mismatched>>
       ELSE /\ Downloaded' = Downloaded + recv.Length
            /\ IF got.Downloaded # got.Size
               THEN /\ pieces' = [pieces EXCEPT ![piece.Index] = got]
                    /\ out' = calls
                    /\ UNCHANGED <<panic, conn, remote, pbf, BitField, requests, mismatched>>
               ELSE IF ~DigestMatches(recv.Index, data)
               THEN \* invalid sha1: close the peer and retry the piece
                    /\ PeerClose(p)
                    /\ out' = [calls EXCEPT !.close = {p}]
                    /\ IF Len(got.Pending) # 0
                       THEN /\ panic' = "malformed state"
                            /\ pieces' = [pieces EXCEPT ![piece.Index] =
                                             [got EXCEPT !.Received = data]]
                       ELSE /\ pieces' = [pieces EXCEPT ![piece.Index] = Requeue(got)]
                            /\ UNCHANGED panic
                    /\ mismatched' = mismatched \cup {recv.Index}
                    /\ UNCHANGED <<BitField, requests>>
               ELSE \E flushOk \in BOOLEAN :
                    IF ~flushOk
               THEN /\ out' = [calls EXCEPT !.flush = {<<recv.Index, FALSE>>}]
                    /\ IF Len(got.Pending) # 0
                       THEN /\ panic' = "malformed state"
                            /\ pieces' = [pieces EXCEPT ![piece.Index] =
                                             [got EXCEPT !.Received = data]]
                       ELSE /\ pieces' = [pieces EXCEPT ![piece.Index] = Requeue(got)]
                            /\ UNCHANGED panic
                    /\ UNCHANGED <<conn, remote, pbf, BitField, requests, mismatched>>
               ELSE \* verified and flushed
                    /\ pieces' = [pieces EXCEPT ![piece.Index] = [got EXCEPT !.Received = data]]
                    /\ BitField' = BitField \cup {recv.Index}
                    /\ IF CompareAndSwap(pieceIdx, piece.Index)
                       THEN /\ requests' = [requests EXCEPT ![pieceIdx] = NoPiece]
                            /\ out' = [calls EXCEPT
                                          !.flush = {<<recv.Index, TRUE>>},
                                          !.have  = {<<q, recv.Index>> :
                                                       q \in {q \in seeders : conn[q] = "established"}}]
                       ELSE /\ UNCHANGED requests
                            /\ out' = [calls EXCEPT
                                          !.flush = {<<recv.Index, TRUE>>},
                                          !.have  = {<<q, recv.Index>> :
                                                       q \in {q \in seeders : conn[q] = "established"}},
                                          !.casFailed = TRUE]
                    /\ UNCHANGED <<panic, conn, remote, pbf, mismatched>>

\* the piece messages a remote can send: any block shape of any piece, with
\* the right or the wrong bytes.
Arrivals ==
    {[Index |-> index, Begin |-> shape[1], Length |-> shape[2], ok |-> ok] :
        index \in PieceIdx, shape \in BlockShapes, ok \in BOOLEAN}

\* one iteration of recvPieces(p) for the piece message recv arriving on
\* p.SeederPieces(): it is dropped when its piece index is in no slot.
RecvPiece(p, recv) ==
    /\ panic = "" /\ recvPc[p] = "recv" /\ conn[p] = "established"
    /\ found[p] = NoFound
    /\ IF LookupSlot(recv.Index) = 0
       THEN /\ out' = [NoCalls EXCEPT !.recv = "untracked"]
            /\ UNCHANGED <<pieces, Downloaded, panic, conn, remote, pbf, BitField, requests,
                           mismatched>>
       ELSE RecvBlock(p, LookupSlot(recv.Index), recv)
    /\ UNCHANGED <<now, seeders, kaPc, recvPc, unverified,
                   schedPc, schedI, freeSlots, stop, cancel, completed, dwg>>
    /\ UNCHANGED <<retried, clientVars>>
    /\ UNCHANGED <<call, found>>

RecvPieces(p) == \E recv \in Arrivals : RecvPiece(p, recv)

\* the same iteration in two steps. First the receive and the slot lookup, made
\* with no lock held: an arrival whose piece is in no slot is dropped.
RecvLookup(p) ==
    /\ panic = "" /\ recvPc[p] = "recv" /\ conn[p] = "established"
    /\ found[p] = NoFound
    /\ \E recv \in Arrivals :
          IF LookupSlot(recv.Index) = 0
          THEN /\ out' = [NoCalls EXCEPT !.recv = "untracked"]
               /\ UNCHANGED found
          ELSE /\ found' = [found EXCEPT ![p] = [slot |-> LookupSlot(recv.Index), recv |-> recv]]
               /\ out' = NoCalls
    /\ UNCHANGED <<now, seeders, conn, remote, pbf, kaPc, recvPc, requests, pieces, unverified,
                   schedPc, schedI, freeSlots, BitField, Downloaded, stop, cancel, completed,
                   dwg, panic>>
    /\ UNCHANGED <<retried, mismatched, clientVars>>
    /\ UNCHANGED call

\* then the handling of the block under the lock of the piece that was found.
RecvLocked(p) ==
    /\ panic = "" /\ recvPc[p] = "recv"
    /\ found[p] # NoFound
    /\ RecvBlock(p, found[p].slot, found[p].recv)
    /\ found' = [found EXCEPT ![p] = NoFound]
    /\ UNCHANGED <<now, seeders, kaPc, recvPc, unverified,
                   schedPc, schedI, freeSlots, stop, cancel, completed, dwg>>
    /\ UNCHANGED <<retried, clientVars>>
    /\ UNCHANGED call

(***************************************************************************)
(* keepAliveSeeders.                                                       *)
(***************************************************************************)
\* case <-t.stop: not-interested, close the peer, end.
KeepAliveStop(p) ==
    /\ panic = "" /\ kaPc[p] = "run"
    /\ stop
    /\ PeerClose(p)
    /\ out' = [NoCalls EXCEPT !.notInterested = {p}, !.close = {p}]
    /\ kaPc' = [kaPc EXCEPT ![p] = "done"]
    /\ dwg' = dwg - 1
    /\ UNCHANGED <<now, seeders, recvPc, requests, pieces,
                   unverified, schedPc, schedI, freeSlots, BitField, Downloaded, stop,
                   cancel, completed, panic>>
    /\ UNCHANGED <<retried, mismatched, clientVars>>
    /\ UNCHANGED <<call, found>>

\* case <-t.download.cancel: close the peer, end.
KeepAliveCancel(p) ==
    /\ panic = "" /\ kaPc[p] = "run"
    /\ cancel
    /\ PeerClose(p)
    /\ out' = [NoCalls EXCEPT !.close = {p}]
    /\ kaPc' = [kaPc EXCEPT ![p] = "done"]
    /\ dwg' = dwg - 1
    /\ UNCHANGED <<now, seeders, recvPc, requests, pieces,
                   unverified, schedPc, schedI, freeSlots, BitField, Downloaded, stop,
                   cancel, completed, panic>>
    /\ UNCHANGED <<retried, mismatched, clientVars>>
    /\ UNCHANGED <<call, found>>

\* case <-t.download.completed: not-interested, close the peer, end.
KeepAliveCompleted(p) ==
    /\ panic = "" /\ kaPc[p] = "run"
    /\ completed
    /\ PeerClose(p)
    /\ out' = [NoCalls EXCEPT !.notInterested = {p}, !.close = {p}]
    /\ kaPc' = [kaPc EXCEPT ![p] = "done"]
    /\ dwg' = dwg - 1
    /\ UNCHANGED <<now, seeders, recvPc, requests, pieces,
                   unverified, schedPc, schedI, freeSlots, BitField, Downloaded, stop,
                   cancel, completed, panic>>
    /\ UNCHANGED <<retried, mismatched, clientVars>>
    /\ UNCHANGED <<call, found>>

\* case <-refresh.C on a pending or killed peer: connect, handshake, send the
\* bitfield and interested, start recvPieces. how is the outcome of the attempt.
KeepAliveConnect(p, how) ==
    /\ panic = "" /\ kaPc[p] = "run"
    /\ conn[p] \in {"pending", "killed"}
    /\ recvPc[p] \in {"none", "exited"}
    /\ CASE how = "connectFailed" ->
              UNCHANGED <<conn, remote, pbf, recvPc, dwg>>
         [] how = "handshakeFailed" ->
              /\ PeerClose(p)
              /\ UNCHANGED <<recvPc, dwg>>
         [] how = "connected" ->
              /\ conn' = [conn EXCEPT ![p] = "established"]
              /\ remote' = [remote EXCEPT ![p] = "choked"]
              /\ pbf' = [pbf EXCEPT ![p] = {}]
              /\ recvPc' = [recvPc EXCEPT ![p] = "recv"]
              /\ dwg' = dwg + 1
    /\ UNCHANGED <<now, seeders, kaPc, requests, pieces, unverified,
                   schedPc, schedI, freeSlots, BitField, Downloaded, stop, cancel,
                   completed, panic>>
    /\ out' = NoCalls
    /\ UNCHANGED <<retried, mismatched, clientVars>>
    /\ UNCHANGED <<call, found>>

\* case <-refresh.C on an established peer: a keep-alive is sent.
KeepAliveSend(p) ==
    /\ panic = "" /\ kaPc[p] = "run"
    /\ conn[p] = "established"
    /\ UNCHANGED engineVars
    /\ UNCHANGED clientVars
    /\ UNCHANGED <<call, found>>

(***************************************************************************)
(* Tracker operations called from the announce worker.                     *)
(***************************************************************************)
\* UpdateSeeders(resp): every new address of the response gets a peer and a
\* keep-alive worker.
UpdateSeeders(resp) ==
    IF Downloaded = Total
    THEN UNCHANGED <<seeders, kaPc, dwg>>
    ELSE /\ seeders' = seeders \cup resp
         /\ kaPc' = [q \in Peers |-> IF q \in resp \ seeders THEN "run" ELSE kaPc[q]]
         /\ dwg' = dwg + Cardinality(resp \ seeders)

\* CancelDownload(): close(t.download.cancel).
CancelDownload ==
    /\ panic = "" /\ ~cancel
    /\ cancel' = TRUE
    /\ UNCHANGED <<now, seeders, conn, remote, pbf, kaPc, recvPc,
                   requests, pieces, unverified, schedPc, schedI, freeSlots, BitField,
                   Downloaded, stop, completed, dwg, panic>>
    /\ out' = NoCalls
    /\ UNCHANGED <<retried, mismatched, clientVars>>
    /\ UNCHANGED <<call, found>>

(***************************************************************************)
(* The remote peers and the clock.                                         *)
(***************************************************************************)
RemoteUnchoke(p) ==
    /\ panic = "" /\ conn[p] = "established" /\ remote[p] = "choked"
    /\ remote' = [remote EXCEPT ![p] = "unchoked"]
    /\ UNCHANGED <<now, seeders, conn, pbf, kaPc, recvPc,
                   requests, pieces, unverified, schedPc, schedI, freeSlots, BitField,
                   Downloaded, stop, cancel, completed, dwg, panic>>
    /\ out' = NoCalls
    /\ UNCHANGED <<retried, mismatched, clientVars>>
    /\ UNCHANGED <<call, found>>

RemoteChoke(p) ==
    /\ panic = "" /\ conn[p] = "established" /\ remote[p] = "unchoked"
    /\ remote' = [remote EXCEPT ![p] = "choked"]
    /\ UNCHANGED <<now, seeders, conn, pbf, kaPc, recvPc,
                   requests, pieces, unverified, schedPc, schedI, freeSlots, BitField,
                   Downloaded, stop, cancel, completed, dwg, panic>>
    /\ out' = NoCalls
    /\ UNCHANGED <<retried, mismatched, clientVars>>
    /\ UNCHANGED <<call, found>>

\* the bitfield message of the remote, a seeder, arrives: every bit is set.
RemoteBitfield(p) ==
    /\ panic = "" /\ conn[p] = "established" /\ pbf[p] # PieceIdx
    /\ pbf' = [pbf EXCEPT ![p] = PieceIdx]
    /\ UNCHANGED <<now, seeders, conn, remote, kaPc, recvPc,
                   requests, pieces, unverified, schedPc, schedI, freeSlots, BitField,
                   Downloaded, stop, cancel, completed, dwg, panic>>
    /\ out' = NoCalls
    /\ UNCHANGED <<retried, mismatched, clientVars>>
    /\ UNCHANGED <<call, found>>

Tick ==
    /\ panic = "" /\ now + TickStep <= MaxNow
    /\ now' = now + TickStep
    /\ UNCHANGED <<seeders, conn, remote, pbf, kaPc, recvPc,
                   requests, pieces, unverified, schedPc, schedI, freeSlots, BitField,
                   Downloaded, stop, cancel, completed, dwg, panic>>
    /\ out' = NoCalls
    /\ UNCHANGED <<retried, mismatched, clientVars>>
    /\ UNCHANGED <<call, found>>

(***************************************************************************)
(* Client: WorkOn, WaitFor, watch, Close.                                  *)
(***************************************************************************)
NoAnnounce == [event |-> "none", uploaded |-> 0, downloaded |-> 0, left |-> 0]

\* WorkOn up to the Load of the info-hash.
WorkOnLoad(c) ==
    /\ panic = "" /\ woPc[c] = "idle"
    /\ woPc' = [woPc EXCEPT ![c] = IF tracked THEN "already tracked" ELSE "store"]
    /\ UNCHANGED <<done, ctxDone, tracked, stores, watchPc, cwg, wkPc, wkD, ann,
                   wfPc, wfErr, wfDone>>
    /\ UNCHANGED engineVars
    /\ UNCHANGED <<call, found>>

\* WorkOn: status.NewTracker, which starts the scheduler, and the Store of the
\* new tracker.
WorkOnStore(c) ==
    /\ panic = "" /\ woPc[c] = "store"
    /\ tracked' = TRUE
    /\ stores' = stores + 1
    /\ woPc' = [woPc EXCEPT ![c] = "send"]
    /\ schedPc' = "run"
    /\ UNCHANGED <<done, ctxDone, watchPc, cwg, wkPc, wkD, ann, wfPc, wfErr, wfDone>>
    /\ UNCHANGED <<now, seeders, conn, remote, pbf, kaPc, recvPc, requests, pieces,
                   unverified, schedI, freeSlots, BitField, Downloaded, stop, cancel,
                   completed, dwg, panic, out, retried, mismatched>>
    /\ UNCHANGED <<call, found>>

\* WorkOn's send on the handler channel meets the receive of watch, which
\* starts a downloadTorrent worker.
WorkOnSend(c) ==
    /\ panic = "" /\ woPc[c] = "send" /\ watchPc = "run"
    /\ woPc' = [woPc EXCEPT ![c] = "ok"]
    /\ cwg' = cwg + 1
    /\ wkPc' = [wkPc EXCEPT ![c] = "start"]
    /\ UNCHANGED <<done, ctxDone, tracked, stores, watchPc, wkD, ann, wfPc, wfErr, wfDone>>
    /\ UNCHANGED engineVars
    /\ UNCHANGED <<call, found>>

\* Close(): close(p.done).
Close ==
    /\ panic = "" /\ ~done
    /\ done' = TRUE
    /\ UNCHANGED <<ctxDone, tracked, stores, woPc, watchPc, cwg, wkPc, wkD, ann,
                   wfPc, wfErr, wfDone>>
    /\ UNCHANGED engineVars
    /\ UNCHANGED <<call, found>>

\* watch, case <-p.done: cancel the context, then wait for the wait group.
WatchDone ==
    /\ panic = "" /\ watchPc = "run" /\ done
    /\ ctxDone' = TRUE
    /\ watchPc' = "wait"
    /\ UNCHANGED <<done, tracked, stores, woPc, cwg, wkPc, wkD, ann, wfPc, wfErr, wfDone>>
    /\ UNCHANGED engineVars
    /\ UNCHANGED <<call, found>>

\* watch in p.wg.Wait(): it returns once the counter is zero, and the deferred
\* p.wg.Done() runs.
WatchWait ==
    /\ panic = "" /\ watchPc = "wait"
    /\ IF cwg = 0
       THEN /\ watchPc' = "returned"
            /\ cwg' = cwg - 1
       ELSE UNCHANGED <<watchPc, cwg>>
    /\ UNCHANGED <<done, ctxDone, tracked, stores, woPc, wkPc, wkD, ann, wfPc, wfErr, wfDone>>
    /\ UNCHANGED engineVars
    /\ UNCHANGED <<call, found>>

\* WaitFor(id): the channel is made and the polling worker started.
WaitFor ==
    /\ panic = "" /\ wfPc = "none"
    /\ wfPc' = "select"
    /\ cwg' = cwg + 1
    /\ UNCHANGED <<done, ctxDone, tracked, stores, woPc, watchPc, wkPc, wkD, ann,
                   wfErr, wfDone>>
    /\ UNCHANGED engineVars
    /\ UNCHANGED <<call, found>>

\* the select of the polling worker: case <-p.done, or default.
WaitForSelect ==
    /\ panic = "" /\ wfPc = "select"
    /\ wfPc' = IF done THEN "shutting down" ELSE "default"
    /\ UNCHANGED <<done, ctxDone, tracked, stores, woPc, watchPc, cwg, wkPc, wkD, ann,
                   wfErr, wfDone>>
    /\ UNCHANGED engineVars
    /\ UNCHANGED <<call, found>>

\* the default case: Load, compare BytesToDownload() with Downloaded, sleep.
WaitForPoll ==
    /\ panic = "" /\ wfPc = "default"
    /\ IF ~tracked
       THEN /\ wfPc' = "not found"
            /\ UNCHANGED <<cwg, wfDone>>
       ELSE IF Total = Downloaded
       THEN /\ wfPc' = "closed"
            /\ cwg' = cwg - 1
            /\ wfDone' = done
       ELSE /\ wfPc' = "select"
            /\ UNCHANGED <<cwg, wfDone>>
    /\ UNCHANGED <<done, ctxDone, tracked, stores, woPc, watchPc, wkPc, wkD, ann, wfErr>>
    /\ UNCHANGED engineVars
    /\ UNCHANGED <<call, found>>

\* the caller receives the error the worker sends; the worker then closes the
\* channel and returns.
WaitForDeliver ==
    /\ panic = "" /\ wfPc \in {"shutting down", "not found"}
    /\ wfErr' = wfPc
    /\ wfPc' = "closed"
    /\ cwg' = cwg - 1
    /\ wfDone' = done
    /\ UNCHANGED <<done, ctxDone, tracked, stores, woPc, watchPc, wkPc, wkD, ann>>
    /\ UNCHANGED engineVars
    /\ UNCHANGED <<call, found>>

(***************************************************************************)
(* Client.downloadTorrent, the announce worker.                            *)
(***************************************************************************)
\* the tracker loop, case <-ctx.Done().
WorkerStartCancelled(w) ==
    /\ panic = "" /\ wkPc[w] = "start" /\ ctxDone
    /\ wkPc' = [wkPc EXCEPT ![w] = "cancelled"]
    /\ cwg' = cwg - 1
    /\ UNCHANGED <<done, ctxDone, tracked, stores, woPc, watchPc, wkD, ann, wfPc, wfErr, wfDone>>
    /\ UNCHANGED engineVars
    /\ UNCHANGED <<call, found>>

\* a tracker loop that leaves for the update loop after a failed announce too.
WorkerStartNoRetry(w, res, resp) ==
    /\ panic = "" /\ wkPc[w] = "start" /\ ~ctxDone
    /\ ann' = [ann EXCEPT ![w] = [event |-> "started", uploaded |-> 0, downloaded |-> 0,
                                  left |-> Total]]
    /\ wkPc' = [wkPc EXCEPT ![w] = "tick"]
    /\ UNCHANGED <<done, ctxDone, tracked, stores, woPc, watchPc, cwg, wkD, wfPc, wfErr, wfDone>>
    /\ UNCHANGED engineVars
    /\ UNCHANGED <<call, found>>

\* the tracker loop, default case: the started announce. res is "err" (sleep
\* and retry), "no interval" (abort) or "ok" with the peers resp. The worker's
\* t.UpdatePeers is the tracker's UpdateSeeders, its one method that takes a
\* response.
WorkerStart(w, res, resp) ==
    /\ panic = "" /\ wkPc[w] = "start" /\ ~ctxDone
    /\ ann' = [ann EXCEPT ![w] = [event |-> "started", uploaded |-> 0, downloaded |-> 0,
                                  left |-> Total]]
    /\ CASE res = "err" ->
              UNCHANGED <<wkPc, cwg, seeders, kaPc, dwg>>
         [] res = "no interval" ->
              /\ wkPc' = [wkPc EXCEPT ![w] = "aborted"]
              /\ cwg' = cwg - 1
              /\ UNCHANGED <<seeders, kaPc, dwg>>
         [] res = "ok" ->
              /\ wkPc' = [wkPc EXCEPT ![w] = "tick"]
              /\ UpdateSeeders(resp)
              /\ UNCHANGED cwg
    /\ UNCHANGED <<done, ctxDone, tracked, stores, woPc, watchPc, wkD, wfPc, wfErr, wfDone>>
    /\ UNCHANGED <<now, conn, remote, pbf, recvPc, requests, pieces, unverified, schedPc,
                   schedI, freeSlots, BitField, Downloaded, stop, cancel, completed,
                   panic, out>>
    /\ UNCHANGED <<retried, mismatched>>
    /\ UNCHANGED <<call, found>>

\* the update loop, case <-ticker.C: the regular announce. res is "err" or
\* "ok" with the peers resp. The three loads of Downloaded (event, downloaded,
\* left) are taken in one step, with no receive step between them.
WorkerTick(w, res, resp) ==
    /\ wkPc[w] = "tick" /\ panic = ""
    /\ LET event == IF Total - Downloaded = 0 THEN "completed" ELSE "none"
       IN  /\ ann' = [ann EXCEPT ![w] = [event |-> event, uploaded |-> 0,
                                         downloaded |-> Downloaded,
                                         left |-> Total - Downloaded]]
           /\ IF event # "none"
              THEN /\ wkPc' = [wkPc EXCEPT ![w] = "completed"]
                   /\ UNCHANGED <<seeders, kaPc, dwg, panic>>
              ELSE IF res = "err"
              THEN \* UpdateSeeders ranges over the peers of a nil response
                   /\ panic' = "nil pointer dereference"
                   /\ UNCHANGED <<wkPc, seeders, kaPc, dwg>>
              ELSE /\ UpdateSeeders(resp)
                   /\ UNCHANGED <<wkPc, panic>>
    /\ UNCHANGED <<done, ctxDone, tracked, stores, woPc, watchPc, cwg, wkD, wfPc, wfErr, wfDone>>
    /\ UNCHANGED <<now, conn, remote, pbf, recvPc, requests, pieces, unverified, schedPc,
                   schedI, freeSlots, BitField, Downloaded, stop, cancel, completed, out>>
    /\ UNCHANGED <<retried, mismatched>>
    /\ UNCHANGED <<call, found>>

\* the update loop, case <-ctx.Done(): Uploaded and Downloaded are loaded for
\* the stopped announce.
WorkerStopLoad(w) ==
    /\ panic = "" /\ wkPc[w] = "tick" /\ ctxDone
    /\ wkD' = [wkD EXCEPT ![w] = Downloaded]
    /\ wkPc' = [wkPc EXCEPT ![w] = "stopping"]
    /\ UNCHANGED <<done, ctxDone, tracked, stores, woPc, watchPc, cwg, ann, wfPc, wfErr, wfDone>>
    /\ UNCHANGED engineVars
    /\ UNCHANGED <<call, found>>

\* Left is computed from a second load of Downloaded, the stopped announce is
\* sent (its failure is only logged), the torrent is closed and the worker ends.
WorkerStopSend(w) ==
    /\ panic = "" /\ wkPc[w] = "stopping"
    /\ ann' = [ann EXCEPT ![w] = [event |-> "stopped", uploaded |-> 0,
                                  downloaded |-> wkD[w], left |-> Total - Downloaded]]
    /\ stop' = TRUE
    /\ wkPc' = [wkPc EXCEPT ![w] = "stopped"]
    /\ cwg' = cwg - 1
    /\ UNCHANGED <<done, ctxDone, tracked, stores, woPc, watchPc, wkD, wfPc, wfErr, wfDone>>
    /\ UNCHANGED <<now, seeders, conn, remote, pbf, kaPc, recvPc, requests, pieces,
                   unverified, schedPc, schedI, freeSlots, BitField, Downloaded, cancel,
                   completed, dwg, panic, out>>
    /\ UNCHANGED <<retried, mismatched>>
    /\ UNCHANGED <<call, found>>

\* t.Downloaded.Add(len(recv.Block)) of the receive path, seen from the client:
\* the counter grows by an accepted block, the blocks arriving in file order.
DownloadedAdd ==
    /\ panic = "" /\ tracked
    /\ \E r \in AllRequests :
          /\ Downloaded = r.Index * PieceLength + r.Begin
          /\ Downloaded' = Downloaded + r.Length
    /\ UNCHANGED <<now, seeders, conn, remote, pbf, kaPc, recvPc, requests, pieces,
                   unverified, schedPc, schedI, freeSlots, BitField, stop, cancel,
                   completed, dwg, panic, out>>
    /\ UNCHANGED clientVars
    /\ UNCHANGED <<retried, mismatched>>
    /\ UNCHANGED <<call, found>>

(***************************************************************************)
(* Package tracker: RequestParams.Validate and CreateRequest, and the       *)
(* TrackerRequestParams.Validate of package client.                         *)
(***************************************************************************)
\* optional parameters: a nil pointer, or a pointer to a value.
NilInt == [set |-> FALSE, val |-> 0]
NilString == [set |-> FALSE, val |-> ""]
NilIP == [set |-> FALSE, val |-> <<>>]
SetOptional(v) == [set |-> TRUE, val |-> v]

\* net.ParseIP on the text of an address, given as its dot-separated decimal
\* fields: the IPv4 form needs four fields of at most 255.
ParseIP(fields) == Len(fields) = 4 /\ \A k \in 1 .. Len(fields) : fields[k] \in 0 .. 255

\* the parameters the calls are made with.
OptInts == {NilInt} \cup {SetOptional(v) : v \in {-1, 0, 1, 2}}
OptEvents == {NilString} \cup {SetOptional(e) : e \in {"started", "stopped", "completed", "paused"}}
OptIPs == {NilIP} \cup {SetOptional(a) : a \in {<<1, 2, 3, 4>>, <<1, 2, 3>>, <<1, 2, 3, 256>>}}
AllParams(ports) ==
    [InfoHash : {"", "h"}, PeerID : {"", "id"}, Port : ports,
     Compact : OptInts, NoPeerId : OptInts, Event : OptEvents, IP : OptIPs,
     NumWant : {NilInt, SetOptional(-1), SetOptional(0)}]
\* RequestParams: Port is an int64.
Params == AllParams({-1, 0, 6881})
\* TrackerRequestParams: Port is a *int64.
TrackerParams == AllParams({NilInt, SetOptional(0), SetOptional(6881)})

\* a Validate without the test for compact and no_peer_id together.
ValidateEither(p) ==
    IF p.InfoHash = "" THEN "info_hash is required"
    ELSE IF p.PeerID = "" THEN "peer_id is required"
    ELSE IF p.Port = 0 THEN "port specified but provided value 0"
    ELSE IF p.Compact.set /\ p.Compact.val # 1 /\ p.Compact.val # 0
    THEN "compact specified but invalid provided value"
    ELSE IF p.NoPeerId.set /\ p.NoPeerId.val # 1 /\ p.NoPeerId.val # 0
    THEN "no_peer_id specified but provided value"
    ELSE IF p.Event.set /\ p.Event.val \notin {"started", "stopped", "completed"}
    THEN "unknown event"
    ELSE IF p.IP.set /\ ~ParseIP(p.IP.val) THEN "invalid ip"
    ELSE IF p.NumWant.set /\ p.NumWant.val < 0 THEN "num_want cannot be negative"
    ELSE ""

\* RequestParams.Validate: the error it returns, "" for nil.
Validate(p) ==
    IF p.InfoHash = "" THEN "info_hash is required"
    ELSE IF p.PeerID = "" THEN "peer_id is required"
    ELSE IF p.Port = 0 THEN "port specified but provided value 0"
    ELSE IF p.Compact.set /\ p.Compact.val # 1 /\ p.Compact.val # 0
    THEN "compact specified but invalid provided value"
    ELSE IF p.NoPeerId.set /\ p.NoPeerId.val # 1 /\ p.NoPeerId.val # 0
    THEN "no_peer_id specified but provided value"
    ELSE IF p.NoPeerId.set /\ p.Compact.set
    THEN "cannot have both no_peer_id and compact specified"
    ELSE IF p.Event.set /\ p.Event.val \notin {"started", "stopped", "completed"}
    THEN "unknown event"
    ELSE IF p.IP.set /\ ~ParseIP(p.IP.val) THEN "invalid ip"
    ELSE IF p.NumWant.set /\ p.NumWant.val < 0 THEN "num_want cannot be negative"
    ELSE ""

\* TrackerRequestParams.Validate: the same tests, the port being optional.
TrackerValidate(p) ==
    IF p.InfoHash = "" THEN "info_hash is required"
    ELSE IF p.PeerID = "" THEN "peer_id is required"
    ELSE IF p.Port.set /\ p.Port.val = 0 THEN "port specified but provided value 0"
    ELSE IF p.Compact.set /\ p.Compact.val # 1 /\ p.Compact.val # 0
    THEN "compact specified but invalid provided value"
    ELSE IF p.NoPeerId.set /\ p.NoPeerId.val # 1 /\ p.NoPeerId.val # 0
    THEN "no_peer_id specified but provided value"
    ELSE IF p.NoPeerId.set /\ p.Compact.set
    THEN "cannot have both no_peer_id and compact specified"
    ELSE IF p.Event.set /\ p.Event.val \notin {"started", "stopped", "completed"}
    THEN "unknown event"
    ELSE IF p.IP.set /\ ~ParseIP(p.IP.val) THEN "invalid ip"
    ELSE IF p.NumWant.set /\ p.NumWant.val < 0 THEN "num_want cannot be negative"
    ELSE ""

\* a call of RequestParams.Validate with any parameters.
CallValidate ==
    /\ call = NoCall
    /\ \E p \in Params :
          call' = [op |-> "Validate", in |-> p, err |-> Validate(p), sent |-> FALSE]
    /\ UNCHANGED <<engineVars, clientVars, found>>

\* a call of TrackerRequestParams.Validate with any parameters.
CallTrackerValidate ==
    /\ call = NoCall
    /\ \E p \in TrackerParams :
          call' = [op |-> "TrackerValidate", in |-> p, err |-> TrackerValidate(p), sent |-> FALSE]
    /\ UNCHANGED <<engineVars, clientVars, found>>

\* the places where CreateRequest fails once the parameters are valid: making
\* the request, sending it, reading the body, the status code, decoding the
\* response, a failure reason in it; or nowhere.
Outcomes ==
    {"failed to create request", "failed to send request", "failed to read response body",
     "returned status code", "failed to decode tracker response", "request to tracker failed",
     "ok"}

\* CreateRequest(ctx, announce, params) with any parameters and outcome.
CreateRequest ==
    /\ call = NoCall
    /\ \E p \in Params, how \in Outcomes :
          IF Validate(p) # ""
          THEN call' = [op |-> "CreateRequest", in |-> p, err |-> "invalid params", sent |-> FALSE]
          ELSE call' = [op |-> "CreateRequest", in |-> p,
                        err |-> IF how = "ok" THEN "" ELSE how,
                        sent |-> how # "failed to create request"]
    /\ UNCHANGED <<engineVars, clientVars, found>>

(***************************************************************************)
(* Package client: the peers of DecodeTrackerResponse.                      *)
(***************************************************************************)
\* the most peers a response of the model names.
MaxPeers == 2

\* the 6-byte records compact responses are made of, and the bytes that can
\* follow the last whole record.
CompactRecords ==
    {<<1, 2, 3, 4, 26, 225>>, <<5, 6, 7, 8, 26, 226>>, <<0, 0, 0, 0, 0, 0>>,
     <<255, 255, 255, 255, 255, 255>>, <<10, 0, 0, 1, 1, 0>>}
CompactTails == {SubSeq(<<192, 168, 0, 1, 0>>, 1, n) : n \in 0 .. 5}

RECURSIVE Concat(_)
\* the concatenation of a sequence of byte strings.
Concat(ss) == IF ss = <<>> THEN <<>> ELSE Head(ss) \o Concat(Tail(ss))

\* a field of a peer dictionary: absent, of the wrong bencoding type, or a value.
Absent == [is |-> "nil"]
WrongType == [is |-> "other"]
Value(v) == [is |-> "value", val |-> v]

\* the peer dictionaries of non-compact responses.
PeerDicts ==
    [id : {Absent, WrongType, Value("peer")},
     ip : {Absent, WrongType, Value(<<9, 9, 9, 9>>)},
     port : {Absent, WrongType, Value(6881)}]

\* the values of the peers key: a byte string, a list, or absent or of
\* another type.
CompactValues ==
    {[type |-> "bytes", val |-> Concat(recs) \o tail] :
        recs \in UNION {[1 .. k -> CompactRecords] : k \in 0 .. MaxPeers},
        tail \in CompactTails}
WideValues ==
    {[type |-> "list", val |-> l] :
        l \in UNION {[1 .. k -> PeerDicts \cup {WrongType}] : k \in 0 .. MaxPeers}}
OtherValues == {[type |-> "absent"], [type |-> "integer"]}

\* a port read with the low byte first.
LittleEndianUint16(hi, lo) == 256 * lo + hi

\* binary.BigEndian.Uint16 of the two bytes hi, lo.
BigEndianUint16(hi, lo) == 256 * hi + lo

\* net.IP(b).String() of four bytes: the dotted form, given as its decimal fields.
IPString(b) == <<b[1], b[2], b[3], b[4]>>

RECURSIVE CompactPeers(_, _)
\* the loop over the compact byte string from offset i (0-based), 6 bytes at a time.
CompactPeers(compact, i) ==
    IF i < Len(compact)
    THEN LET peer == SubSeq(compact, i + 1, i + 6)
         IN  <<[PeerID |-> "", IP |-> IPString(SubSeq(peer, 1, 4)),
                Port |-> BigEndianUint16(peer[5], peer[6])]>>
             \o CompactPeers(compact, i + 6)
    ELSE <<>>

RECURSIVE WidePeers(_, _)
\* the loop over the list of peer dictionaries from position k, appending to
\* out: it returns at the first malformed peer with what it had appended.
WidePeers(wide, k) ==
    IF k > Len(wide) THEN [err |-> "", Peers |-> <<>>]
    ELSE LET peer == wide[k]
         IN  IF peer = WrongType THEN [err |-> "expected peer to be of type Dictionary", Peers |-> <<>>]
             ELSE IF peer.id.is = "other" THEN [err |-> "expected peer_id to be of type Bytestring", Peers |-> <<>>]
             ELSE IF peer.ip.is = "nil" THEN [err |-> "no ip listed for peer", Peers |-> <<>>]
             ELSE IF peer.ip.is = "other" THEN [err |-> "expected peer_ip to be of type Bytestring", Peers |-> <<>>]
             ELSE IF peer.port.is = "nil" THEN [err |-> "no port listed for peer", Peers |-> <<>>]
             ELSE IF peer.port.is = "other" THEN [err |-> "expected peer_port to be of type Integer", Peers |-> <<>>]
             ELSE LET rest == WidePeers(wide, k + 1)
                      peerData == [PeerID |-> IF peer.id.is = "value" THEN peer.id.val ELSE "",
                                   IP |-> peer.ip.val, Port |-> peer.port.val]
                  IN  [err |-> rest.err, Peers |-> <<peerData>> \o rest.Peers]

\* the peers part of DecodeTrackerResponse: the error returned and out.Peers.
DecodePeers(peers) ==
    CASE peers.type = "absent" -> [err |-> "", Peers |-> <<>>]
      [] peers.type = "list" -> WidePeers(peers.val, 1)
      [] peers.type = "bytes" ->
            IF Len(peers.val) % 6 # 0
            THEN [err |-> "expected length of compact to be a multiple of 6", Peers |-> <<>>]
            ELSE [err |-> "", Peers |-> CompactPeers(peers.val, 0)]
      [] OTHER -> [err |-> "peers were nor dictionary or bytestring type", Peers |-> <<>>]

\* a call of DecodeTrackerResponse on a response with any peers value.
DecodeTrackerResponse ==
    /\ call = NoCall
    /\ \/ \E peers \in CompactValues :
             call' = [op |-> "DecodeTrackerResponse", in |-> peers,
                      err |-> DecodePeers(peers).err, Peers |-> DecodePeers(peers).Peers]
       \/ \E peers \in WideValues :
             call' = [op |-> "DecodeTrackerResponse", in |-> peers,
                      err |-> DecodePeers(peers).err, Peers |-> DecodePeers(peers).Peers]
       \/ \E peers \in OtherValues :
             call' = [op |-> "DecodeTrackerResponse", in |-> peers,
                      err |-> DecodePeers(peers).err, Peers |-> DecodePeers(peers).Peers]
    /\ UNCHANGED <<engineVars, clientVars, found>>

(***************************************************************************)
(* The block split of the admission step, on pieces of any size.            *)
(***************************************************************************)
\* the most whole blocks a piece of the split calls has.
MaxBlocks == 18

\* the piece sizes the split is called with: whole blocks and a rest.
SplitSizes ==
    {n * RequestSize + d : n \in 0 .. MaxBlocks, d \in {0, 1, 4672, 5088, RequestSize - 1}} \ {0}

\* the split loop of the admission step run on a piece of any size.
CallSplit ==
    /\ call = NoCall
    /\ \E index \in PieceIdx, pieceSize \in SplitSizes :
          call' = [op |-> "SplitPiece", in |-> pieceSize, out |-> SplitPiece(index, pieceSize)]
    /\ UNCHANGED <<engineVars, clientVars, found>>

\* the pendingPiece the admission step builds for a piece of the torrent.
CallAdmit ==
    /\ call = NoCall
    /\ \E index \in PieceIdx :
          call' = [op |-> "NewPendingPiece", in |-> index, out |-> NewPendingPiece(index)]
    /\ UNCHANGED <<engineVars, clientVars, found>>

(***************************************************************************)
(* Package bencoding: Decode and Literal. Byte strings are sequences of      *)
(* one-character strings.                                                   *)
(***************************************************************************)
\* the most elements of a list or dictionary of the inputs.
MaxElems == 2

Digits == <<"0", "1", "2", "3", "4", "5", "6", "7", "8", "9">>
\* the bytes of the inputs in ASCII order.
Alphabet == <<"-">> \o Digits \o <<":", "a", "b", "d", "e", "i", "l">>
IsDigit(c) == \E k \in 1 .. 10 : Digits[k] = c
DigitVal(c) == (CHOOSE k \in 1 .. 10 : Digits[k] = c) - 1
Ord(c) == CHOOSE k \in 1 .. Len(Alphabet) : Alphabet[k] = c

RECURSIVE LexLess(_, _)
\* a < b in the lexicographic order of byte strings.
LexLess(a, b) ==
    IF a = <<>> THEN b # <<>>
    ELSE IF b = <<>> THEN FALSE
    ELSE IF a[1] = b[1] THEN LexLess(Tail(a), Tail(b))
    ELSE Ord(a[1]) < Ord(b[1])

RECURSIVE NatText(_)
\* the decimal digits of n >= 0.
NatText(n) ==
    IF n < 10 THEN <<Digits[n + 1]>>
    ELSE NatText(n \div 10) \o <<Digits[(n % 10) + 1]>>
IntText(n) == IF n < 0 THEN <<"-">> \o NatText(0 - n) ELSE NatText(n)

RECURSIVE DigitsEnd(_, _)
\* the position after the run of digits of s that starts at pos.
DigitsEnd(s, pos) ==
    IF pos <= Len(s) /\ IsDigit(s[pos]) THEN DigitsEnd(s, pos + 1) ELSE pos

\* a number read from its last digit only.
NatValueLastDigit(s, from, to) == IF from >= to THEN 0 ELSE DigitVal(s[to - 1])

RECURSIVE NatValue(_, _, _)
\* the number written by the digits of s at from .. to - 1.
NatValue(s, from, to) ==
    IF from >= to THEN 0
    ELSE NatValue(s, from, to - 1) * 10 + DigitVal(s[to - 1])

Fail == [ok |-> FALSE]

\* i<digits>e at pos: leading zeros, -0 and an empty number are rejected.
DecodeInteger(s, pos) ==
    LET neg  == pos + 1 <= Len(s) /\ s[pos + 1] = "-"
        from == IF neg THEN pos + 2 ELSE pos + 1
        to   == DigitsEnd(s, from)
    IN  IF to = from \/ to > Len(s) THEN Fail
        ELSE IF s[to] # "e" THEN Fail
        ELSE IF s[from] = "0" /\ (to - from > 1 \/ neg) THEN Fail
        ELSE [ok |-> TRUE,
              val |-> [t |-> "integer",
                       n |-> IF neg THEN 0 - NatValue(s, from, to) ELSE NatValue(s, from, to)],
              next |-> to + 1]

\* <len>:<bytes> at pos.
DecodeByteString(s, pos) ==
    LET to == DigitsEnd(s, pos)
    IN  IF to = pos \/ to > Len(s) THEN Fail
        ELSE IF s[to] # ":" THEN Fail
        ELSE IF to + NatValue(s, pos, to) > Len(s) THEN Fail
        ELSE [ok |-> TRUE,
              val |-> [t |-> "bytestring", b |-> SubSeq(s, to + 1, to + NatValue(s, pos, to))],
              next |-> to + NatValue(s, pos, to) + 1]

RECURSIVE DecodeAt(_, _)
RECURSIVE DecodeList(_, _)
RECURSIVE DecodeDict(_, _, _)
\* the value that starts at pos: the four productions.
DecodeAt(s, pos) ==
    IF pos > Len(s) THEN Fail
    ELSE IF s[pos] = "i" THEN DecodeInteger(s, pos)
    ELSE IF IsDigit(s[pos]) THEN DecodeByteString(s, pos)
    ELSE IF s[pos] = "l" THEN DecodeList(s, pos + 1)
    ELSE IF s[pos] = "d" THEN DecodeDict(s, pos + 1, [has |-> FALSE, key |-> <<>>])
    ELSE Fail

\* the values of a list up to its e.
DecodeList(s, pos) ==
    IF pos > Len(s) THEN Fail
    ELSE IF s[pos] = "e" THEN [ok |-> TRUE, val |-> [t |-> "list", v |-> <<>>], next |-> pos + 1]
    ELSE LET h == DecodeAt(s, pos)
         IN  IF ~h.ok THEN Fail
             ELSE LET r == DecodeList(s, h.next)
                  IN  IF ~r.ok THEN Fail
                      ELSE [ok |-> TRUE, val |-> [t |-> "list", v |-> <<h.val>> \o r.val.v],
                            next |-> r.next]

\* the key/value pairs of a dictionary up to its e; prev is the key before:
\* keys out of strict lexicographic order are rejected.
DecodeDict(s, pos, prev) ==
    IF pos > Len(s) THEN Fail
    ELSE IF s[pos] = "e" THEN [ok |-> TRUE, val |-> [t |-> "dictionary", kv |-> <<>>], next |-> pos + 1]
    ELSE IF ~IsDigit(s[pos]) THEN Fail
    ELSE LET k == DecodeByteString(s, pos)
         IN  IF ~k.ok THEN Fail
             ELSE IF prev.has /\ ~LexLess(prev.key, k.val.b) THEN Fail
             ELSE LET v == DecodeAt(s, k.next)
                  IN  IF ~v.ok THEN Fail
                      ELSE LET r == DecodeDict(s, v.next, [has |-> TRUE, key |-> k.val.b])
                           IN  IF ~r.ok THEN Fail
                               ELSE [ok |-> TRUE,
                                     val |-> [t |-> "dictionary",
                                              kv |-> <<<<k.val.b, v.val>>>> \o r.val.kv],
                                     next |-> r.next]

\* bencoding.Decode(src): the value at the start of the input, or an error.
Decode(s) == DecodeAt(s, 1)

RECURSIVE Literal(_)
RECURSIVE LiteralList(_)
RECURSIVE LiteralDict(_)
\* Value.Literal(): the bytes of a decoded value.
Literal(v) ==
    IF v.t = "integer" THEN <<"i">> \o IntText(v.n) \o <<"e">>
    ELSE IF v.t = "bytestring" THEN NatText(Len(v.b)) \o <<":">> \o v.b
    ELSE IF v.t = "list" THEN <<"l">> \o LiteralList(v.v) \o <<"e">>
    ELSE <<"d">> \o LiteralDict(v.kv) \o <<"e">>
LiteralList(vs) == IF vs = <<>> THEN <<>> ELSE Literal(Head(vs)) \o LiteralList(Tail(vs))
LiteralDict(kv) ==
    IF kv = <<>> THEN <<>>
    ELSE NatText(Len(Head(kv)[1])) \o <<":">> \o Head(kv)[1] \o Literal(Head(kv)[2])
         \o LiteralDict(Tail(kv))

\* the values whose encodings are the canonical inputs: integers and byte
\* strings, lists and dictionaries of them, and those nested once more.
Atoms ==
    {[t |-> "integer", n |-> n] : n \in {0, 7, -3, 10, 42}}
    \cup {[t |-> "bytestring", b |-> b] :
             b \in {<<>>, <<"a">>, <<"e">>, <<"1", ":">>,
                    <<"a", "b", "a", "b", "a", "b", "a", "b", "a", "b", "a">>}}
Keys == {<<"a">>, <<"a", "b">>, <<"b">>}
KeySeqs(k) == {ks \in [1 .. k -> Keys] : \A i \in 1 .. k, j \in 1 .. k : i < j => LexLess(ks[i], ks[j])}
ListsOf(S) == {[t |-> "list", v |-> l] : l \in UNION {[1 .. k -> S] : k \in 0 .. MaxElems}}
DictsOf(S) ==
    UNION {{[t |-> "dictionary", kv |-> [i \in 1 .. k |-> <<ks[i], vs[i]>>]] :
               ks \in KeySeqs(k), vs \in [1 .. k -> S]} : k \in 0 .. MaxElems}
Flat == Atoms \cup ListsOf(Atoms) \cup DictsOf(Atoms)
Nested ==
    {[t |-> "list", v |-> <<x>>] : x \in Flat}
    \cup {[t |-> "dictionary", kv |-> <<<<k, x>>>>] : k \in Keys, x \in Flat}
CanonicalInputs == {Literal(v) : v \in Flat \cup Nested}
\* inputs out of canonical form: a leading zero, -0, an empty number, keys out
\* of order, a repeated key, a short byte string, an unterminated list.
OtherInputs ==
    {<<"i", "0", "3", "e">>, <<"i", "-", "0", "e">>, <<"i", "e">>,
     <<"d", "1", ":", "b", "0", ":", "1", ":", "a", "0", ":", "e">>,
     <<"d", "1", ":", "a", "0", ":", "1", ":", "a", "0", ":", "e">>,
     <<"2", ":", "a">>, <<"l", "i", "7", "e">>}

\* TestDecodeEncode on any input: Decode, then Literal of the value.
CallDecode ==
    /\ call = NoCall
    /\ \E B \in CanonicalInputs \cup OtherInputs :
          call' = [op |-> "Decode", in |-> B, canonical |-> B \in CanonicalInputs,
                   ok |-> Decode(B).ok,
                   literal |-> IF Decode(B).ok THEN Literal(Decode(B).val) ELSE <<>>]
    /\ UNCHANGED <<engineVars, clientVars, found>>

(***************************************************************************)
(* Initial state and specifications.                                       *)
(***************************************************************************)
\* the tracker as status.NewTracker leaves it; sched is "none" before WorkOn
\* has made it and "run" afterwards, the scheduler started.
EngineInit(sched) ==
    /\ now = 0
    /\ seeders = {}
    /\ conn = [q \in Peers |-> "pending"]
    /\ remote = [q \in Peers |-> "choked"]
    /\ pbf = [q \in Peers |-> {}]
    /\ kaPc = [q \in Peers |-> "none"]
    /\ recvPc = [q \in Peers |-> "none"]
    /\ found = [q \in Peers |-> NoFound]
    /\ requests = [s \in 1 .. NumSlots |-> NoPiece]
    /\ pieces = <<>>
    /\ unverified \in Perms(PieceIdx)
    /\ schedPc = sched
    /\ schedI = 1
    /\ freeSlots = 0
    /\ BitField = {}
    /\ Downloaded = 0
    /\ stop = FALSE
    /\ cancel = FALSE
    /\ completed = FALSE
    /\ dwg = 1
    /\ panic = ""
    /\ out = NoCalls
    /\ retried = {}
    /\ mismatched = {}

\* the client as New leaves it: watch runs and holds one count of the wait group.
ClientInit ==
    /\ done = FALSE
    /\ ctxDone = FALSE
    /\ tracked = FALSE
    /\ stores = 0
    /\ woPc = [c \in Callers |-> "idle"]
    /\ watchPc = "run"
    /\ cwg = 1
    /\ wkPc = [c \in Callers |-> "none"]
    /\ wkD = [c \in Callers |-> 0]
    /\ ann = [c \in Callers |-> NoAnnounce]
    /\ wfPc = "none"
    /\ wfErr = ""
    /\ wfDone = FALSE
    /\ call = NoCall

\* the announce worker seen from the tracker: UpdateSeeders is called with the
\* peers of a tracker response.
Announce(P) ==
    /\ panic = ""
    /\ \E resp \in SUBSET P : UpdateSeeders(resp)
    /\ UNCHANGED <<now, conn, remote, pbf, recvPc,
                   requests, pieces, unverified, schedPc, schedI, freeSlots, BitField,
                   Downloaded, stop, cancel, completed, panic>>
    /\ out' = NoCalls
    /\ UNCHANGED <<retried, mismatched, clientVars>>
    /\ UNCHANGED <<call, found>>

\* the steps of the download of a tracked torrent with the peers P, while it
\* is neither stopped nor cancelled.
Download(P) ==
    \/ SchedulerSlot
    \/ SchedulerAdmit
    \/ \E p \in P : RecvPieces(p)
    \/ \E p \in P : RecvClosed(p)
    \/ \E p \in P : KeepAliveCompleted(p)
    \/ \E p \in P, how \in {"connectFailed", "handshakeFailed", "connected"} : KeepAliveConnect(p, how)
    \/ \E p \in P : KeepAliveSend(p)
    \/ \E p \in P : RemoteUnchoke(p)
    \/ \E p \in P : RemoteChoke(p)
    \/ \E p \in P : RemoteBitfield(p)
    \/ Tick

\* the state after New().
Init ==
    /\ EngineInit("none")
    /\ ClientInit

\* the state after New(), a WorkOn call of c1 and a started announce that the
\* tracker answered with an interval and no peers.
TrackedInit ==
    /\ EngineInit("run")
    /\ done = FALSE
    /\ ctxDone = FALSE
    /\ tracked = TRUE
    /\ stores = 1
    /\ woPc = [c \in Callers |-> IF c = "c1" THEN "ok" ELSE "idle"]
    /\ watchPc = "run"
    /\ cwg = 2
    /\ wkPc = [c \in Callers |-> IF c = "c1" THEN "tick" ELSE "none"]
    /\ wkD = [c \in Callers |-> 0]
    /\ ann = [c \in Callers |-> IF c = "c1"
                                THEN [event |-> "started", uploaded |-> 0,
                                      downloaded |-> 0, left |-> Total]
                                ELSE NoAnnounce]
    /\ wfPc = "none"
    /\ wfErr = ""
    /\ wfDone = FALSE
    /\ call = NoCall

\* The download of a tracked torrent.
Next ==
    \/ Download(Peers)
    \/ Announce(Peers)

Spec == TrackedInit /\ [][Next]_vars

\* The download of a tracked torrent from a single peer.
PeerNext ==
    \/ Download({"p1"})
    \/ Announce({"p1"})

PeerSpec == TrackedInit /\ [][PeerNext]_vars

\* The client and one torrent from WorkOn to the completed announce, with one
\* caller, one peer and no Close.
ReportNext ==
    \/ Download({"p1"})
    \/ WorkOnLoad("c1")
    \/ WorkOnStore("c1")
    \/ WorkOnSend("c1")
    \/ \E res \in {"err", "no interval", "ok"}, resp \in SUBSET {"p1"} : WorkerStart("c1", res, resp)
    \/ \E res \in {"err", "ok"}, resp \in SUBSET {"p1"} : WorkerTick("c1", res, resp)
    \/ WaitFor
    \/ WaitForSelect
    \/ WaitForPoll
    \/ WaitForDeliver

ReportSpec == Init /\ [][ReportNext]_vars

\* The client with racing WorkOn calls and Close; of the download only the
\* growth of the Downloaded counter is kept.
ClientNext ==
    \/ \E c \in Callers : WorkOnLoad(c)
    \/ \E c \in Callers : WorkOnStore(c)
    \/ \E c \in Callers : WorkOnSend(c)
    \/ Close
    \/ WatchDone
    \/ WatchWait
    \/ WaitFor
    \/ WaitForSelect
    \/ WaitForPoll
    \/ WaitForDeliver
    \/ \E w \in Callers : WorkerStartCancelled(w)
    \/ \E w \in Callers, res \in {"err", "no interval", "ok"}, resp \in SUBSET Peers : WorkerStart(w, res, resp)
    \/ \E w \in Callers, res \in {"err", "ok"}, resp \in SUBSET Peers : WorkerTick(w, res, resp)
    \/ \E w \in Callers : WorkerStopLoad(w)
    \/ \E w \in Callers : WorkerStopSend(w)
    \/ DownloadedAdd

ClientSpec == Init /\ [][ClientNext]_vars

\* The same under the scheduling of the Go runtime: watch, the announce
\* workers once cancelled and the WaitFor worker, whose channel the caller
\* receives from, each take the step they can take.
FairClientSpec ==
    /\ ClientSpec
    /\ WF_vars(WatchDone)
    /\ WF_vars(WatchWait)
    /\ WF_vars(WaitForSelect)
    /\ WF_vars(WaitForPoll)
    /\ WF_vars(WaitForDeliver)
    /\ \A w \in Callers : WF_vars(WorkerStartCancelled(w))
    /\ \A w \in Callers : WF_vars(WorkerStopLoad(w))
    /\ \A w \in Callers : WF_vars(WorkerStopSend(w))

\* The download of a tracked torrent from a single peer that answers in time
\* and stays unchoked, with its ends: the client is closed and the announce
\* worker stops the torrent, or the download is cancelled.
StopNext ==
    \/ SchedulerSlot
    \/ SchedulerAdmit
    \/ RecvPieces("p1")
    \/ RecvClosed("p1")
    \/ KeepAliveCompleted("p1")
    \/ \E how \in {"connectFailed", "handshakeFailed", "connected"} : KeepAliveConnect("p1", how)
    \/ RemoteUnchoke("p1")
    \/ RemoteBitfield("p1")
    \/ Announce({"p1"})
    \/ SchedulerStop
    \/ SchedulerCancel
    \/ KeepAliveStop("p1")
    \/ KeepAliveCancel("p1")
    \/ CancelDownload
    \/ Close
    \/ WatchDone
    \/ WorkerStopLoad("c1")
    \/ WorkerStopSend("c1")

StopSpec == TrackedInit /\ [][StopNext]_vars

\* The same under the scheduling of the Go runtime: a worker whose select has
\* a closed channel among its cases takes such a case, and the scheduler goes
\* on with the iteration it is in.
FairStopSpec ==
    /\ StopSpec
    /\ WF_vars(SchedulerSlot)
    /\ WF_vars(SchedulerAdmit)
    /\ WF_vars(SchedulerStop)
    /\ WF_vars(SchedulerCancel)
    /\ WF_vars(KeepAliveStop("p1"))
    /\ WF_vars(KeepAliveCancel("p1"))
    /\ WF_vars(KeepAliveCompleted("p1"))
    /\ WF_vars(RecvClosed("p1"))

\* a visit of a slot on which no SendRequest fails: where a peer is eligible
\* nothing stays pending.
SchedulerSlotSent ==
    /\ SchedulerSlot
    /\ \A i \in PieceIdx :
          (out'.lock = i /\ \E q \in seeders : CanRequest(q, i)) => pieces'[i].Pending = <<>>

\* peer p answers a request in flight with the right bytes, and the flush of
\* a piece it completes succeeds.
GoodAnswer(p) ==
    \E recv \in Arrivals :
       /\ recv.ok
       /\ LookupSlot(recv.Index) # 0
       /\ \E k \in 1 .. Len(pieces[recv.Index].InFlight) :
             /\ pieces[recv.Index].InFlight[k].request
                   = [Index |-> recv.Index, Begin |-> recv.Begin, Length |-> recv.Length]
             /\ ~pieces[recv.Index].InFlight[k].received
       /\ RecvPiece(p, recv)
       /\ \A i \in PieceIdx : <<i, FALSE>> \notin out'.flush

\* The download with a peer p1 that answers every request with the right
\* bytes, while requests time out and the flush succeeds, next to a peer p2
\* that is never asked and sends what it likes.
LiveNext ==
    \/ SchedulerSlotSent
    \/ SchedulerAdmit
    \/ GoodAnswer("p1")
    \/ RecvPieces("p2")
    \/ RecvClosed("p2")
    \/ \E p \in Peers : KeepAliveConnect(p, "connected")
    \/ \E p \in Peers : KeepAliveCompleted(p)
    \/ RemoteUnchoke("p1")
    \/ RemoteBitfield("p1")
    \/ Announce(Peers)
    \/ Tick

\* under the scheduling of the Go runtime the scheduler goes on with its loop
\* and the receive worker of p1 handles the answers that arrive.
FairLiveSpec ==
    /\ TrackedInit /\ [][LiveNext]_vars
    /\ WF_vars(SchedulerSlotSent)
    /\ WF_vars(SchedulerAdmit)
    /\ WF_vars(GoodAnswer("p1"))

\* The same download with p1 as the only peer.
GoodNext ==
    \/ SchedulerSlotSent
    \/ SchedulerAdmit
    \/ GoodAnswer("p1")
    \/ KeepAliveConnect("p1", "connected")
    \/ KeepAliveCompleted("p1")
    \/ RemoteUnchoke("p1")
    \/ RemoteBitfield("p1")
    \/ Announce({"p1"})
    \/ Tick

FairGoodSpec ==
    /\ TrackedInit /\ [][GoodNext]_vars
    /\ WF_vars(SchedulerSlotSent)
    /\ WF_vars(SchedulerAdmit)
    /\ WF_vars(GoodAnswer("p1"))

\* The download from two peers whose receive workers interleave between the
\* slot lookup and the piece lock.
RaceNext ==
    \/ SchedulerSlot
    \/ SchedulerAdmit
    \/ \E p \in Peers : RecvLookup(p)
    \/ \E p \in Peers : RecvLocked(p)
    \/ \E p \in Peers : KeepAliveConnect(p, "connected")
    \/ \E p \in Peers : RemoteUnchoke(p)
    \/ \E p \in Peers : RemoteBitfield(p)
    \/ Announce(Peers)

RaceSpec == TrackedInit /\ [][RaceNext]_vars

\* Calls of the parameter validation and of CreateRequest.
RequestNext ==
    \/ CallValidate
    \/ CallTrackerValidate
    \/ CreateRequest

RequestSpec == Init /\ [][RequestNext]_vars

\* Calls of DecodeTrackerResponse.
DecodeNext == DecodeTrackerResponse

DecodeSpec == Init /\ [][DecodeNext]_vars

\* Calls of the block split.
SplitNext ==
    \/ CallSplit
    \/ CallAdmit

SplitSpec == Init /\ [][SplitNext]_vars

\* Calls of the bencoding decoder.
BencodingNext == CallDecode

BencodingSpec == Init /\ [][BencodingNext]_vars

(***************************************************************************)
(* Properties.                                                             *)
(***************************************************************************)
\* the download is reported complete: the channel of WaitFor was closed
\* without an error, or a tick announce carried event=completed.
ReportedComplete ==
    \/ wfPc = "closed" /\ wfErr = ""
    \/ \E w \in Callers : ann[w].event = "completed"

\* C1: whenever the download is reported complete to the host or to the
\* tracker, every bit of the torrent bitfield is set and Downloaded equals the
\* total length. Violated under ReportSpec: Downloaded counts the blocks of a
\* piece whose digest then fails, so it reaches the total with a bit unset.
C1_CompleteMeansVerified ==
    ReportedComplete => BitField = PieceIdx /\ Downloaded = Total

\* C1: a state in which completion is reported although a piece is unverified.
C1_ReportedUnverified ==
    /\ wfPc = "closed" /\ wfErr = ""
    /\ ann["c1"].event = "completed"
    /\ BitField # PieceIdx
    /\ Downloaded = Total

\* the request a block answers.
RequestOf(recv) == [Index |-> recv.Index, Begin |-> recv.Begin, Length |-> recv.Length]

\* the requests of piece i in flight, received and pending.
InFlightSet(i) == {pieces[i].InFlight[k].request : k \in 1 .. Len(pieces[i].InFlight)}
ReceivedSet(i) == {RequestOf(pieces[i].Received[k]) : k \in 1 .. Len(pieces[i].Received)}
PendingSet(i) == SeqToSet(pieces[i].Pending)

\* the piece of index i occupies a slot.
Slotted(i) == \E s \in 1 .. NumSlots : requests[s] = i

\* the three conditions under which an arriving block is accepted.
Acceptable(recv) ==
    /\ Slotted(recv.Index)
    /\ RequestOf(recv) \in InFlightSet(recv.Index)
    /\ RequestOf(recv) \notin ReceivedSet(recv.Index)

\* the step accepts recv: it is counted in the piece and in the torrent.
Accepted(recv) ==
    /\ panic' = panic
    /\ Downloaded' = Downloaded + recv.Length
    /\ pieces'[recv.Index].Downloaded = pieces[recv.Index].Downloaded + recv.Length

\* the step leaves the pieces, the slots and the counters alone.
Discarded ==
    /\ pieces' = pieces
    /\ Downloaded' = Downloaded
    /\ requests' = requests
    /\ BitField' = BitField
    /\ panic' = panic

\* the blocks piece i is split into.
BlocksOf(i) == SeqToSet(SplitPiece(i, PieceSize(i)))

\* recv is the last missing block of its piece, and every block has the right bytes.
Completes(recv) ==
    /\ ReceivedSet(recv.Index) \cup {RequestOf(recv)} = BlocksOf(recv.Index)
    /\ recv.ok
    /\ \A k \in 1 .. Len(pieces[recv.Index].Received) : pieces[recv.Index].Received[k].ok

\* the step verifies piece i: it is flushed and, the flush succeeding, its bit
\* is set, its slot released and have(i) sent to every established session.
Verified(i) ==
    /\ out'.flush # {}
    /\ out'.flush = {<<i, TRUE>>} =>
          /\ i \in BitField'
          /\ ~Slotted(i)'
          /\ out'.have = {<<p, i>> : p \in {p \in seeders : conn[p] = "established"}}

\* C2: the arrival that completes a piece with a failing digest closes its
\* peer and requeues every block of the piece, and every correct block a peer
\* then delivers for a request of that piece is accepted without the process
\* aborting, the last of them getting the piece flushed, its bit set and
\* have(index) sent to the established sessions. Violated: piece.Downloaded
\* keeps the bytes of the failed round, and the next accepted block aborts.
C2_HashMismatchRecovery ==
    [][\A q \in Peers, recv \in Arrivals :
          RecvPiece(q, recv) =>
             /\ mismatched' # mismatched =>
                   /\ conn'[q] = "killed" /\ out'.close = {q}
                   /\ PendingSet(recv.Index)' = BlocksOf(recv.Index)
                   /\ pieces'[recv.Index].InFlight = <<>>
                   /\ pieces'[recv.Index].Received = <<>>
             /\ (recv.Index \in mismatched /\ recv.ok /\ Acceptable(recv)) =>
                   /\ Accepted(recv)
                   /\ Completes(recv) => Verified(recv.Index)
      ]_vars

\* C2: the process has aborted on a block of a piece whose digest had failed.
C2_AbortAfterMismatch ==
    /\ panic = "recieved more data than expected"
    /\ \E i \in mismatched : Slotted(i) /\ pieces[i].Downloaded > pieces[i].Size

\* C9: an arrival whose piece is in no slot, or that matches no request in
\* flight, or whose block is already in Received, leaves every piece, the slot
\* table, the bitfield and the Downloaded counter unchanged; so a block is
\* accepted only under the three conditions.
C9_DiscardLeavesState ==
    [][\A q \in Peers, recv \in Arrivals :
          (RecvPiece(q, recv) /\ ~Acceptable(recv)) => Discarded
      ]_vars

\* C9: a duplicate of a block already in Received has just been discarded.
C9_DuplicateDiscarded ==
    /\ out.recv = "duplicate"
    /\ \E i \in DOMAIN pieces : Slotted(i) /\ pieces[i].Received # <<>>

\* C10: Downloaded never decreases, and it changes only in a step that accepts
\* an arriving block, by the length of that block.
C10_DownloadedIsAcceptedSum ==
    [][/\ Downloaded' >= Downloaded
       /\ Downloaded' # Downloaded =>
             \E q \in Peers, recv \in Arrivals :
                /\ RecvPiece(q, recv)
                /\ Acceptable(recv)
                /\ Downloaded' = Downloaded + recv.Length
       /\ \A q \in Peers, recv \in Arrivals :
             (RecvPiece(q, recv) /\ Acceptable(recv) /\ out'.recv = "accepted") =>
                Downloaded' = Downloaded + recv.Length
      ]_vars

\* C10: blocks were accepted and counted, and an arrival was then discarded.
C10_CountedThenDiscarded ==
    /\ Downloaded > 0
    /\ out.recv \in {"unrequested", "duplicate", "untracked"}

\* the entries in flight of the piece in slot s that the scheduler moves back.
Late(s) ==
    {pieces[requests[s]].InFlight[k] : k \in
        {k \in 1 .. Len(pieces[requests[s]].InFlight) :
            /\ ~pieces[requests[s]].InFlight[k].received
            /\ now - pieces[requests[s]].InFlight[k].send > RequestTimeout}}

\* C7, the reschedule: on its visit of an occupied slot the scheduler moves
\* back exactly the entries not marked received and sent more than 15 s ago;
\* each leaves InFlight and is pending or in flight anew, the other entries
\* stay, and one cancel per moved request goes to every established and
\* remote-unchoked session.
C7_Reschedule ==
    [][(SchedulerSlot /\ requests[schedI] # NoPiece) =>
          LET i       == requests[schedI]
              entries == SeqToSet(pieces[i].InFlight)
              late    == Late(schedI)
              moved   == {e.request : e \in late}
          IN  /\ retried' = retried \cup moved
              /\ \A e \in late : e \notin SeqToSet(pieces'[i].InFlight)
              /\ \A e \in entries \ late : e \in SeqToSet(pieces'[i].InFlight)
              /\ \A r \in moved :
                    \/ r \in SeqToSet(pieces'[i].Pending)
                    \/ [request |-> r, send |-> now, received |-> FALSE]
                          \in SeqToSet(pieces'[i].InFlight)
              /\ out'.cancel = {<<q, r>> :
                     q \in {q \in seeders : conn[q] = "established" /\ remote[q] = "unchoked"},
                     r \in moved}
      ]_vars

\* C7, the answer: a correct block arriving for a reissued request in flight
\* is accepted, and when it is the last block of the piece the piece is verified.
C7_AnswerCompletes ==
    [][\A q \in Peers, recv \in Arrivals :
          (RequestOf(recv) \in retried /\ recv.ok /\ Acceptable(recv) /\ RecvPiece(q, recv)) =>
             /\ Accepted(recv)
             /\ Completes(recv) => Verified(recv.Index)
      ]_vars

\* C7: timeout reschedule, from the move back to Pending to the completion of
\* the piece by the answer to the reissued request. Violated in the second
\* part: a piece requeued after a failed digest or flush aborts the process on
\* the answer.
C7_TimeoutReschedule == C7_Reschedule /\ C7_AnswerCompletes

\* C7: the process has aborted on the answer to a request reissued after a timeout.
C7_AbortOnReissued ==
    /\ panic = "recieved more data than expected"
    /\ out.recv = "aborted"
    /\ \E i \in DOMAIN pieces :
          /\ Slotted(i) /\ pieces[i].Downloaded > pieces[i].Size
          /\ \E r \in retried : r \in InFlightSet(i) /\ r.Length = pieces[i].Downloaded - pieces[i].Size

\* C8: of the blocks arriving for a request that was cancelled on a timeout
\* and reissued, the one arriving while the request is in flight and not yet
\* in Received is appended and counted, and every other one is discarded.
\* Violated: on a piece requeued after a failed digest or flush the arrival
\* aborts the process, and none is accepted.
C8_ReissuedAcceptedOnce ==
    [][\A q \in Peers, recv \in Arrivals :
          (RequestOf(recv) \in retried /\ RecvPiece(q, recv)) =>
             IF Acceptable(recv)
             THEN /\ Accepted(recv)
                  /\ \/ RequestOf(recv) \in ReceivedSet(recv.Index)'
                     \/ pieces'[recv.Index].Received = <<>>
             ELSE Discarded
      ]_vars

\* C8: a reissued request was answered, and neither the late answer to the
\* original nor the answer to the reissue is in Received: the process aborted.
C8_ReissuedNoneAccepted ==
    /\ panic # ""
    /\ \E i \in DOMAIN pieces :
          \E r \in retried : r \in InFlightSet(i) /\ r \notin ReceivedSet(i)

\* C3: once Close is called, watch and every worker counted in Client.wg
\* terminate and the join of watch on the wait group completes, unless the
\* process aborts. Violated under FairClientSpec: watch waits on a wait group
\* that still counts watch itself, and a worker that returns after the
\* completed announce never releases its count.
C3_CloseJoinsWorkers ==
    done ~> (panic # "" \/ (watchPc = "returned" /\ cwg = 0))

\* C3: Close was called, every announce worker and the WaitFor worker have
\* ended, and watch still waits on a counter that is not zero.
C3_JoinNeverCompletes ==
    /\ done /\ watchPc = "wait" /\ panic = ""
    /\ \A w \in Callers : wkPc[w] \in {"cancelled", "aborted", "completed", "stopped"}
    /\ wfPc = "closed"
    /\ cwg > 0

\* C4: whatever the interleaving of the WorkOn calls for one info-hash, at
\* most one tracker is stored, at most one call succeeds and at most one
\* download worker is started. Violated under ClientSpec: two calls both
\* Load before either Stores.
C4_WorkOnIdempotent ==
    /\ stores <= 1
    /\ Cardinality({c \in Callers : woPc[c] = "ok"}) <= 1
    /\ Cardinality({w \in Callers : wkPc[w] # "none"}) <= 1

\* C4: both calls returned the info-hash, two trackers were stored and two
\* workers started.
C4_BothSucceeded ==
    /\ stores = 2
    /\ \A c \in Callers : woPc[c] = "ok" /\ wkPc[c] # "none"

\* C6: an announce worker that has ended with the context cancelled has sent
\* event=stopped with left = total - downloaded and has closed the torrent,
\* in whatever phase it was. Violated under ClientSpec: only the update loop
\* announces stopped and closes the torrent, and it loads Downloaded twice.
C6_CancelSendsStopped ==
    \A w \in Callers :
        (ctxDone /\ wkPc[w] \in {"cancelled", "aborted", "completed", "stopped"}) =>
            /\ ann[w].event = "stopped"
            /\ ann[w].left = Total - ann[w].downloaded
            /\ stop

\* C6: a worker cancelled in its started loop has ended without a stopped
\* announce and without closing the torrent.
C6_CancelledInStartLoop ==
    /\ ctxDone /\ wkPc["c1"] = "cancelled"
    /\ ann["c1"].event # "stopped"
    /\ ~stop

\* C5: the channel of WaitFor for a tracked torrent is never closed while the
\* download is unfinished and Close was not called; whenever Close had been
\* called by the time the channel is closed, the shutdown error was delivered
\* first, even if the download has finished; and once the download has
\* finished or Close was called, the channel is eventually closed.
C5_WaitForCompletes ==
    /\ [](wfPc = "closed" /\ wfErr # "not found" => done \/ Downloaded = Total)
    /\ [](wfPc = "closed" /\ wfErr # "not found" /\ wfDone => wfErr = "shutting down")
    /\ (wfPc # "none" /\ tracked /\ (done \/ Downloaded = Total)) ~> (wfPc = "closed")

\* C5: the channel was closed after Close was called, with no error delivered.
C5_ClosedWithoutError ==
    wfPc = "closed" /\ wfDone /\ wfErr = "" /\ tracked /\ Downloaded = Total

\* C11: the scheduler closes completed only from the running state, with the
\* unverified queue empty, every slot nil and every piece's bit set, and it
\* exits as completed, not through stop or cancel; once completed is closed
\* the scheduler has exited that way for good, so it closes it only once.
C11_CompletedOnce ==
    /\ [][completed' # completed =>
            /\ ~completed /\ completed'
            /\ Len(unverified) = 0
            /\ \A s \in 1 .. NumSlots : requests[s] = NoPiece
            /\ BitField = PieceIdx
            /\ schedPc = "run" /\ schedPc' = "completed"
            /\ UNCHANGED <<unverified, requests, BitField>>]_vars
    /\ [](completed => schedPc = "completed")
    /\ [](schedPc \in {"stopped", "cancelled"} => ~completed)

\* C11: completed is closed while stop or cancel is signalled as well.
C11_CompletedBesideStop ==
    completed /\ schedPc = "completed" /\ (stop \/ cancel) /\ BitField = PieceIdx

\* C12: the first announce of a worker is event=started with uploaded 0,
\* downloaded 0 and left = total, and so is every announce of the tracker loop;
\* a failed attempt leaves the worker in the tracker loop, which it leaves only
\* by a cancellation or by an answered started announce; and an announce other
\* than started is sent only by a worker that has entered the update loop,
\* which is entered only by an answered started announce.
C12_StartedFirst ==
    [][\A w \in Callers :
          LET Started == [event |-> "started", uploaded |-> 0, downloaded |-> 0, left |-> Total]
          IN  /\ (ann[w] = NoAnnounce /\ ann'[w] # NoAnnounce) => ann'[w] = Started
              /\ \A res \in {"err", "no interval", "ok"}, resp \in SUBSET Peers :
                    WorkerStart(w, res, resp) =>
                        /\ ann'[w] = Started
                        /\ res = "err" => wkPc'[w] = "start"
              /\ (wkPc[w] = "start" /\ wkPc'[w] # "start") =>
                    \/ ctxDone /\ wkPc'[w] = "cancelled" /\ ann'[w] = ann[w]
                    \/ \E res \in {"no interval", "ok"}, resp \in SUBSET Peers :
                          WorkerStart(w, res, resp)
              /\ (wkPc[w] # "tick" /\ wkPc'[w] = "tick") =>
                    \E resp \in SUBSET Peers : WorkerStart(w, "ok", resp)
              /\ (ann'[w] # ann[w] /\ ann'[w].event # "started") =>
                    wkPc[w] \in {"tick", "stopping"}]_vars

\* C12: a worker in the update loop has sent a regular announce that reports
\* downloaded bytes.
C12_RegularAfterStarted ==
    \E w \in Callers :
        wkPc[w] = "tick" /\ ann[w].event = "none" /\ ann[w].downloaded > 0

\* the parameters the claim says are rejected; zeroPort says whether the port
\* has the value 0.
Rejected(p, zeroPort) ==
    \/ p.InfoHash = "" \/ p.PeerID = ""
    \/ zeroPort
    \/ p.Compact.set /\ p.Compact.val \notin {0, 1}
    \/ p.NoPeerId.set /\ p.NoPeerId.val \notin {0, 1}
    \/ p.Compact.set /\ p.NoPeerId.set
    \/ p.Event.set /\ p.Event.val \notin {"started", "stopped", "completed"}
    \/ p.IP.set /\ ~ParseIP(p.IP.val)
    \/ p.NumWant.set /\ p.NumWant.val < 0

\* C13: Validate returns an error exactly for the parameters with an empty
\* info_hash or peer_id, a port of 0, a compact or no_peer_id outside {0,1},
\* both compact and no_peer_id, an unknown event, an unparsable ip or a
\* negative numwant; and CreateRequest with such parameters returns an error
\* and sends no HTTP request.
C13_ValidateRejects ==
    /\ call.op = "Validate" => (call.err # "" <=> Rejected(call.in, call.in.Port = 0))
    /\ call.op = "TrackerValidate" =>
          (call.err # "" <=> Rejected(call.in, call.in.Port.set /\ call.in.Port.val = 0))
    /\ call.op = "CreateRequest" =>
          (Rejected(call.in, call.in.Port = 0) => call.err # "" /\ ~call.sent)

\* C13: CreateRequest was called with compact and no_peer_id both present and
\* valid, and nothing else wrong.
C13_BothRejected ==
    /\ call.op = "CreateRequest" /\ call.err = "invalid params" /\ ~call.sent
    /\ call.in.Compact = SetOptional(1) /\ call.in.NoPeerId = SetOptional(0)
    /\ ~Rejected([call.in EXCEPT !.NoPeerId = NilInt], call.in.Port = 0)

\* C14: a compact peers string of length 6k decodes without an error to k
\* peers in input order, the i-th with the dotted form of bytes 6i..6i+3, the
\* port 256*byte[6i+4] + byte[6i+5] and an empty peer id; the 12-byte example
\* gives 1.2.3.4:6881 and 5.6.7.8:6882; a length that is no multiple of 6 is
\* an error; an empty peer list, compact or not, is valid and gives no peers.
C14_CompactPeers ==
    call.op = "DecodeTrackerResponse" =>
        /\ call.in.type = "bytes" =>
              LET b == call.in.val
                  k == Len(b) \div 6
              IN  IF Len(b) % 6 = 0
                  THEN /\ call.err = ""
                       /\ Len(call.Peers) = k
                       /\ \A i \in 0 .. (k - 1) :
                             /\ call.Peers[i + 1].IP = <<b[6 * i + 1], b[6 * i + 2], b[6 * i + 3], b[6 * i + 4]>>
                             /\ call.Peers[i + 1].Port = 256 * b[6 * i + 5] + b[6 * i + 6]
                             /\ call.Peers[i + 1].PeerID = ""
                  ELSE call.err # ""
        /\ call.in = [type |-> "bytes", val |-> <<1, 2, 3, 4, 26, 225, 5, 6, 7, 8, 26, 226>>] =>
              call.Peers = <<[PeerID |-> "", IP |-> <<1, 2, 3, 4>>, Port |-> 6881],
                             [PeerID |-> "", IP |-> <<5, 6, 7, 8>>, Port |-> 6882]>>
        /\ (call.in.type \in {"bytes", "list"} /\ call.in.val = <<>>) =>
              call.err = "" /\ call.Peers = <<>>

\* C14: the 12-byte example was decoded to two peers.
C14_ExampleDecoded ==
    /\ call.op = "DecodeTrackerResponse"
    /\ call.in = [type |-> "bytes", val |-> <<1, 2, 3, 4, 26, 225, 5, 6, 7, 8, 26, 226>>]
    /\ call.err = "" /\ Len(call.Peers) = 2

\* C15: a piece of 300,000 bytes is split into 18 block requests of 16,384
\* bytes plus one of 5,088 bytes, at the begins 0, 16,384, 32,768, ...
C15_SplitExample ==
    (call.op = "SplitPiece" /\ call.in = 300000) =>
        /\ Len(call.out) = 19
        /\ \A k \in 1 .. 18 : call.out[k].Length = 16384
        /\ call.out[19].Length = 5088
        /\ \A k \in 1 .. 19 : call.out[k].Begin = (k - 1) * 16384

\* C15: a piece of 300,000 bytes was split.
C15_SplitDone ==
    call.op = "SplitPiece" /\ call.in = 300000 /\ Len(call.out) = 19

\* C15 as stated: a piece of 300,000 bytes is split into 18 block requests of
\* 16,384 bytes plus one of 4,672 bytes.
C15_SplitAsStated ==
    (call.op = "SplitPiece" /\ call.in = 300000) =>
        /\ Len(call.out) = 19
        /\ \A k \in 1 .. 18 : call.out[k].Length = 16384
        /\ call.out[19].Length = 4672

\* C16: Decode of an input in strict canonical form succeeds, and the
\* Literal of the decoded value is the input, byte for byte.
C16_RoundTrip ==
    (call.op = "Decode" /\ call.canonical) => call.ok /\ call.literal = call.in

\* C16: a dictionary with two keys in order, one of whose values has a
\* two-digit length, made the round trip.
C16_DictionaryDecoded ==
    /\ call.op = "Decode" /\ call.canonical /\ call.ok
    /\ Len(call.in) > 22
    /\ SubSeq(call.in, 1, 8) = <<"d", "1", ":", "a", "1", "1", ":", "a">>
    /\ SubSeq(call.in, 19, 22) = <<"1", ":", "b", "i">>

\* C17: for every piece occupying a slot piece.Downloaded <= piece.Size, and
\* the receive path never aborts on "recieved more data than expected", also
\* after a digest mismatch or a failed flush of the piece. Violated: the
\* requeue after either failure leaves piece.Downloaded at piece.Size.
C17_DownloadedWithinSize ==
    /\ \A i \in PieceIdx : Slotted(i) => pieces[i].Downloaded <= pieces[i].Size
    /\ panic # "recieved more data than expected"

\* C17: the process has aborted on a block of a piece that was requeued after
\* a failed flush, no digest having failed.
C17_AbortAfterFlushFailure ==
    /\ panic = "recieved more data than expected"
    /\ mismatched = {}
    /\ \E i \in PieceIdx : Slotted(i) /\ pieces[i].Downloaded > pieces[i].Size

\* the number of blocks of piece i, and of its requests in flight that no
\* block has answered.
BlockCount(i) == Len(SplitPiece(i, PieceSize(i)))
Unanswered(i) == Cardinality({k \in 1 .. Len(pieces[i].InFlight) : ~pieces[i].InFlight[k].received})

\* C18 as stated: for every piece in a slot, len(InFlight) + len(Pending) +
\* len(Received) is the block count of the piece. Violated: an accepted block
\* is appended to Received and its request stays in InFlight, marked received.
C18_BlockCountAsStated ==
    \A i \in PieceIdx :
       Slotted(i) =>
          Len(pieces[i].InFlight) + Len(pieces[i].Pending) + Len(pieces[i].Received)
             = BlockCount(i)

\* C18: for every piece in a slot, the requests in flight not marked received,
\* plus len(Pending), plus len(Received), make the block count of the piece.
C18_BlockCount ==
    \A i \in PieceIdx :
       Slotted(i) =>
          Unanswered(i) + Len(pieces[i].Pending) + Len(pieces[i].Received) = BlockCount(i)

\* C18: a piece of two blocks is in a slot with one block received, its request
\* still in InFlight, and the other block in flight or pending.
C18_OneOfTwoReceived ==
    \E i \in PieceIdx :
       /\ Slotted(i) /\ BlockCount(i) = 2
       /\ Len(pieces[i].Received) = 1
       /\ \E k \in 1 .. Len(pieces[i].InFlight) : pieces[i].InFlight[k].received

\* C19: a step that holds a piece lock makes no call into a session (request,
\* cancel, have, close) and none to Flush. Violated: the scheduler sends its
\* cancels and requests, and the receive path closes the peer, flushes and
\* sends have, between Lock and Unlock of the piece.
C19_NoCallUnderPieceLock ==
    out.lock # NoPiece =>
       /\ out.request = {} /\ out.cancel = {}
       /\ out.have = {} /\ out.close = {} /\ out.flush = {}

\* C19: the scheduler has sent a request while holding the lock of the piece.
C19_RequestUnderLock == out.lock # NoPiece /\ out.request # {}

\* C20: with the receive workers of two peers interleaving between the slot
\* lookup and the piece lock, a step flushes a piece successfully only if the
\* piece was not verified before, so no piece is verified or flushed twice,
\* and the compare-and-swap that releases the slot never fails.
C20_VerifiedOnce ==
    [][/\ \A i \in PieceIdx : <<i, TRUE>> \in out'.flush => i \notin BitField
       /\ ~out'.casFailed
      ]_vars

\* C20: a worker has taken the lock of a piece that another worker verified
\* and released from its slot after this worker's lookup; its block was
\* discarded as a duplicate.
C20_LateWorkerDiscarded ==
    /\ out.lock \in BitField /\ ~Slotted(out.lock)
    /\ out.recv = "duplicate"

\* the places of piece index i: the scheduler's queue, the slots that hold it,
\* and verified (bit set and no slot holding it).
InQueue(i) == \E k \in 1 .. Len(unverified) : unverified[k] = i
SlotsOf(i) == {sl \in 1 .. NumSlots : requests[sl] = i}
VerifiedPiece(i) == i \in BitField /\ SlotsOf(i) = {}
Places(i) ==
    (IF InQueue(i) THEN 1 ELSE 0) + Cardinality(SlotsOf(i)) + (IF VerifiedPiece(i) THEN 1 ELSE 0)

WholeData(i) ==
    LET r == pieces[i].Received
    IN  /\ Len(r) = BlockCount(i)
        /\ \A k \in 1 .. Len(r) : r[k].ok /\ RequestOf(r[k]) = SplitPiece(i, PieceSize(i))[k]

\* the step sets the bit of piece i, releases its slot or sends have(i).
Announces(i) ==
    \/ i \in BitField' /\ i \notin BitField
    \/ Slotted(i) /\ ~Slotted(i)'
    \/ \E q \in Peers : <<q, i>> \in out'.have

\* C22: a step sets the bit of piece i, releases its slot or sends have(i)
\* only if it flushed the piece successfully, the blocks received being the
\* whole piece with the right bytes, and then it does all three, have(i) going
\* to every session established at that time; a step with a failed digest or
\* a failed flush does none of the three.
C22_AfterVerification ==
    [][/\ \A i \in PieceIdx :
             Announces(i) =>
                /\ out'.flush = {<<i, TRUE>>}
                /\ WholeData(i)'
                /\ i \in BitField' /\ ~Slotted(i)'
                /\ out'.have = {<<q, i>> : q \in {q \in seeders : conn[q] = "established"}}
       /\ (mismatched' # mismatched \/ \E i \in PieceIdx : <<i, FALSE>> \in out'.flush) =>
             /\ BitField' = BitField
             /\ requests' = requests
             /\ out'.have = {}
      ]_vars

\* C22: a piece of two blocks has been verified, and have was sent to both
\* peers, one of which did not deliver the last block.
C22_HaveToBoth ==
    /\ \E i \in PieceIdx : /\ out.flush = {<<i, TRUE>>} /\ BlockCount(i) = 2
                          /\ out.have = {<<q, i>> : q \in Peers}

\* piece i is as a retry needs it: nothing received, nothing in flight, one
\* pending request for every block, its slot kept and its bit unset.
Requeued(i) ==
    /\ pieces[i].Received = <<>>
    /\ pieces[i].InFlight = <<>>
    /\ Len(pieces[i].Pending) = BlockCount(i)
    /\ PendingSet(i) = BlocksOf(i)
    /\ Slotted(i)
    /\ i \notin BitField

\* C23: the step of recvPieces in which the digest of a fully received piece
\* fails leaves the delivering peer closed and the piece requeued in its slot;
\* the step in which the flush fails leaves the piece requeued in its slot and
\* closes no peer.
C23_RetryState ==
    [][(mismatched' # mismatched \/ out'.flush # {}) =>
       \A q \in Peers, recv \in Arrivals :
          RecvPiece(q, recv) =>
             /\ mismatched' # mismatched =>
                   /\ conn'[q] = "killed" /\ out'.close = {q}
                   /\ out'.flush = {}
                   /\ Requeued(recv.Index)'
             /\ out'.flush = {<<recv.Index, FALSE>>} =>
                   /\ conn' = conn /\ out'.close = {}
                   /\ Requeued(recv.Index)'
      ]_vars

\* C23: a piece of two blocks was requeued after its digest failed, the peer
\* that delivered its last block being closed.
C23_RequeuedAfterMismatch ==
    \E i \in PieceIdx :
       /\ BlockCount(i) = 2 /\ i \in mismatched
       /\ out.lock = i /\ out.close # {} /\ out.recv = "accepted"
       /\ Len(pieces[i].Pending) = 2

\* the requests the step sent, and the requests of the piece in slot s that
\* the scheduler's visit finds waiting: pending or timed out.
Sent == {rq[2] : rq \in out'.request}
Waiting(s) == PendingSet(requests[s]) \cup {e.request : e \in Late(s)}

\* C24: a request is sent only to a peer of the session map that is
\* established and remote-unchoked and whose bitfield has the piece; on the
\* scheduler's visit of a slot the requests sent, and only they, are in
\* InFlight and out of Pending afterwards, and every waiting request that was
\* not sent (no peer eligible, or the send failed) is in Pending and not in
\* InFlight.
C24_Dispatch ==
    [][/\ \A rq \in out'.request :
             /\ rq[1] \in seeders
             /\ conn[rq[1]] = "established" /\ remote[rq[1]] = "unchoked"
             /\ rq[2].Index \in pbf[rq[1]]
       /\ (schedI' = schedI + 1 /\ requests[schedI] # NoPiece) =>
             \A i \in {requests[schedI]} :
                 /\ Sent \subseteq Waiting(schedI)
                 /\ Sent \subseteq InFlightSet(i)' /\ Sent \cap PendingSet(i)' = {}
                 /\ InFlightSet(i)' \subseteq (InFlightSet(i) \ Waiting(schedI)) \cup Sent
                 /\ \A r \in Waiting(schedI) \ Sent :
                       r \in PendingSet(i)' /\ r \notin InFlightSet(i)'
                 /\ Len(pieces'[i].Pending) + Len(pieces'[i].InFlight)
                       = Len(pieces[i].Pending) + Len(pieces[i].InFlight)
      ]_vars

\* C24: on one visit the scheduler sent one block request of a piece to a peer
\* while the other block request stayed pending, the other peer being
\* established but not eligible.
C24_OneSentOneKept ==
    \E i \in PieceIdx, q \in Peers, q2 \in Peers :
       /\ out.lock = i /\ Cardinality(out.request) = 1
       /\ \E rq \in out.request : rq[1] = q
       /\ Len(pieces[i].Pending) = 1
       /\ q2 # q /\ conn[q2] = "established" /\ (remote[q2] = "choked" \/ i \notin pbf[q2])

\* every worker of the download has ended and the wait group is at zero, or
\* the process has aborted.
DownloadEnded ==
    \/ panic # ""
    \/ /\ schedPc # "run"
       /\ \A q \in Peers : kaPc[q] # "run" /\ recvPc[q] # "recv"
       /\ dwg = 0

\* C25: once stop or cancel is signalled the scheduler, the keep-alive workers
\* and the receive workers end and the wait group reaches zero; and each of
\* them, at its select while stop or cancel is signalled, can take the step
\* that ends it. Violated: the select of recvPieces has the one case of the
\* peer's channel, so a receive worker of an established session cannot.
C25_WorkersObserveStop ==
    /\ (stop \/ cancel) ~> DownloadEnded
    /\ [](panic = "" /\ schedPc = "run" /\ schedI = 1 =>
             /\ stop => ENABLED SchedulerStop
             /\ cancel => ENABLED SchedulerCancel)
    /\ [](\A q \in {"p1"} :
             panic = "" /\ kaPc[q] = "run" =>
                /\ stop => ENABLED KeepAliveStop(q)
                /\ cancel => ENABLED KeepAliveCancel(q))
    /\ [](\A q \in {"p1"} :
             panic = "" /\ recvPc[q] = "recv" /\ (stop \/ cancel) => ENABLED RecvClosed(q))

\* C25: cancel is signalled while the receive worker of an established
\* session waits for the next piece message.
C25_ReceiverWaitsUnderCancel ==
    /\ cancel /\ panic = ""
    /\ recvPc["p1"] = "recv" /\ conn["p1"] = "established" /\ kaPc["p1"] = "run"

\* the session of p1 is established and remote-unchoked and has every piece.
GoodSession == conn["p1"] = "established" /\ remote["p1"] = "unchoked" /\ pbf["p1"] = PieceIdx

\* C26: if from some time on the session of p1 stays established and
\* remote-unchoked with every piece, p1 answering every request with the
\* right bytes and every flush succeeding, then every piece is eventually
\* verified and the scheduler closes completed. Violated: a block p2 delivers
\* with wrong bytes fails the digest, and the answer of p1 to the retry aborts
\* the process.
C26_DownloadCompletes ==
    <>[]GoodSession => <>(completed /\ BitField = PieceIdx)

\* C26: the process has aborted on an answer of p1 to the retry of a piece
\* whose digest failed on a block of p2, the session of p1 being as required.
C26_AbortedWithGoodSession ==
    /\ GoodSession /\ panic = "recieved more data than expected"
    /\ mismatched # {} /\ ~completed
    /\ conn["p2"] = "killed"

\* C27: a tick announce that fails leaves its worker in the update loop, the
\* process running and the session map with its keep-alive workers unchanged,
\* so that the next tick announces again. Violated: the nil response of the
\* failed announce is handed to the peer update, which dereferences it.
C27_TickFailureTolerated ==
    [][\A w \in Callers, resp \in SUBSET {"p1"} :
          WorkerTick(w, "err", resp) =>
             /\ panic' = ""
             /\ wkPc'[w] = "tick"
             /\ seeders' = seeders /\ kaPc' = kaPc /\ dwg' = dwg
      ]_vars

\* C27: the process has aborted in the update loop of a worker whose torrent
\* is not yet downloaded.
C27_AbortedOnFailedTick ==
    /\ panic = "nil pointer dereference"
    /\ wkPc["c1"] = "tick" /\ Downloaded < Total

\* C28: the step in which a keep-alive worker ends on stop, cancel or
\* completed sends not-interested to its peer and closes the session, once.
\* Violated: on cancel the worker closes the session without sending
\* not-interested.
C28_GracefulShutdown ==
    [][\A q \in Peers :
          (kaPc[q] = "run" /\ kaPc'[q] = "done") =>
             /\ stop \/ cancel \/ completed
             /\ out'.notInterested = {q}
             /\ out'.close = {q}
             /\ conn'[q] = "killed"
      ]_vars

\* C28: the keep-alive worker of p1 has ended on cancel, closing an
\* established session to which no not-interested was sent.
C28_ClosedWithoutNotInterested ==
    /\ cancel /\ ~stop /\ ~completed
    /\ kaPc["p1"] = "done" /\ conn["p1"] = "killed"
    /\ out.close = {"p1"} /\ out.notInterested = {}
    /\ recvPc["p1"] = "recv"

RECURSIVE SumLengths(_)
SumLengths(blocks) ==
    IF blocks = <<>> THEN 0 ELSE Head(blocks).Length + SumLengths(Tail(blocks))

\* blocks partition [0, size) in order: begins at the multiples of
\* RequestSize, lengths of RequestSize but for a shorter last block, none empty.
Partitions(blocks, size) ==
    /\ Len(blocks) >= 1
    /\ \A k \in 1 .. Len(blocks) :
          /\ blocks[k].Begin = (k - 1) * RequestSize
          /\ blocks[k].Length > 0
          /\ k < Len(blocks) => blocks[k].Length = RequestSize
    /\ blocks[Len(blocks)].Length
          = (IF size % RequestSize # 0 THEN size % RequestSize ELSE RequestSize)
    /\ SumLengths(blocks) = size

\* C29: the piece admitted for index i has the size min(piece_length, total -
\* i * piece_length), nothing downloaded, received or in flight, and pending
\* requests of its index that partition [0, size); and the split loop
\* partitions a piece of any size.
C29_AdmissionSplit ==
    /\ call.op = "NewPendingPiece" =>
          /\ call.out.Index = call.in
          /\ call.out.Size = Min(PieceLength, Total - call.in * PieceLength)
          /\ call.out.Downloaded = 0
          /\ call.out.Received = <<>> /\ call.out.InFlight = <<>>
          /\ Partitions(call.out.Pending, call.out.Size)
          /\ \A k \in 1 .. Len(call.out.Pending) : call.out.Pending[k].Index = call.in
    /\ call.op = "SplitPiece" => Partitions(call.out, call.in)

\* C29: the last piece of the torrent, shorter than the piece length, was
\* admitted with a last block shorter than RequestSize.
C29_LastPieceAdmitted ==
    /\ call.op = "NewPendingPiece" /\ call.in = NumPieces - 1
    /\ call.out.Size < PieceLength
    /\ call.out.Pending[Len(call.out.Pending)].Length < RequestSize

====
